---- MODULE Spec2Model ----
(***************************************************************************)
(* NutriCoach AI: extraction-to-advice pipeline.                           *)
(*                                                                         *)
(* Python strings are modelled as sequences of one-character strings, so   *)
(* that strip(), lower(), upper(), substring containment and the regular   *)
(* expressions of the source are computed character by character.  The     *)
(* marker glyph U+2B24 of the report is written "@" (a character that is   *)
(* neither a letter, a digit nor white space, like the glyph).  Python's   *)
(* None is the value None below, which is no string of the model.          *)
(***************************************************************************)
EXTENDS Integers, Sequences, FiniteSets, TLC

VARIABLES
    pc,            \* the call the program is in / has completed
    result,        \* argument of RuleEngine._normalize_risk
    risk_key,      \* its return value
    rules_data,    \* RuleEngine.rules_data (loaded rules.yml)
    genes,         \* the observations handed to RuleEngine.apply_rules
    advice_list,   \* list of GeneRuleAdvice (apply_rules' return value)
    plan,          \* ComprehensiveHealthPlan (generate_plan's return value)
    pdf,           \* the document: per page its text and its table
    pages_text,    \* PDFExtractor._pages_text
    summary_rows,  \* PDFExtractor._summary_rows
    gene_name,     \* argument of find_gene / _parse_trait_result_from_context
    found,         \* find_gene's return value
    context,       \* argument of _parse_trait_result_from_context
    parsed,        \* its return value
    cleaned,       \* _clean_trait_result's return value
    disk,          \* the files that exist: name -> content
    raised,        \* the exception that left the run (NoError while none has)
    plan_dict,     \* plan_to_dict's return value
    menu,          \* MealGenerator.generate_daily_plan's return value
    report,        \* the narrative text of generate_report
    session,       \* st.session_state of the UI session: key -> value
    uploaded_file, \* the file held by st.file_uploader (None while there is none)
    args,          \* the command line of the CLI run
    meals,         \* MealGenerator.meals (loaded meals.yml)
    previous       \* the list an earlier call of apply_rules returned

vars == <<pc, result, risk_key, rules_data, genes, advice_list, plan, pdf,
          pages_text, summary_rows, gene_name, found, context, parsed, cleaned,
          disk, raised, plan_dict, menu, report, session,
          uploaded_file, args, meals, previous>>

-----------------------------------------------------------------------------
(* Python values and string primitives *)

None == <<"<None>">>

\* Python truthiness of an Optional[str] / Optional[list]
Truthy(x) == x # None /\ x # <<>>

UpperLetters == <<"A","B","C","D","E","F","G","H","I","J","K","L","M","N","O","P","Q","R","S","T","U","V","W","X","Y","Z">>
LowerLetters == <<"a","b","c","d","e","f","g","h","i","j","k","l","m","n","o","p","q","r","s","t","u","v","w","x","y","z">>
Digits == <<"0","1","2","3","4","5","6","7","8","9">>

IndexOf(c, s) == CHOOSE i \in 1..Len(s) : s[i] = c
UpperSet == {UpperLetters[i] : i \in 1..Len(UpperLetters)}
LowerSet == {LowerLetters[i] : i \in 1..Len(LowerLetters)}
DigitSet == {Digits[i] : i \in 1..Len(Digits)}
ToLower == [c \in UpperSet |-> LowerLetters[IndexOf(c, UpperLetters)]]
ToUpper == [c \in LowerSet |-> UpperLetters[IndexOf(c, LowerLetters)]]
IsUpper(c) == c \in UpperSet
IsLower(c) == c \in LowerSet
IsLetter(c) == IsUpper(c) \/ IsLower(c)
IsDigit(c) == c \in DigitSet
\* str.strip(), str.split() and the regex class \s
IsSpace(c) == c \in {" ", "\t", "\n"}
\* the regex class \w
IsWordChar(c) == IsLetter(c) \/ IsDigit(c) \/ c = "_"

LowerChar(c) == IF IsUpper(c) THEN ToLower[c] ELSE c
UpperChar(c) == IF IsLower(c) THEN ToUpper[c] ELSE c
\* str.lower()
Lower(s) == [i \in 1..Len(s) |-> LowerChar(s[i])]
\* str.upper()
Upper(s) == [i \in 1..Len(s) |-> UpperChar(s[i])]

RECURSIVE SkipSpaces(_, _)
\* the first position from j on that holds no white space (Len(s)+1 if none):
\* where a greedy \s* starting at j ends
SkipSpaces(s, j) ==
    IF j <= Len(s) /\ IsSpace(s[j]) THEN SkipSpaces(s, j + 1) ELSE j

RECURSIVE SkipSpacesBack(_, _)
\* the last position up to j that holds no white space (0 if none)
SkipSpacesBack(s, j) ==
    IF j >= 1 /\ IsSpace(s[j]) THEN SkipSpacesBack(s, j - 1) ELSE j

\* str.strip()
Strip(s) == SubSeq(s, SkipSpaces(s, 1), SkipSpacesBack(s, Len(s)))

\* sub occurs in s at (1-based) position i
OccursAt(s, sub, i) ==
    /\ i >= 1
    /\ i + Len(sub) - 1 <= Len(s)
    /\ \A k \in 1..Len(sub) : s[i + k - 1] = sub[k]

\* Python's  sub in s
Contains(s, sub) == \E i \in 1..(Len(s) - Len(sub) + 1) : OccursAt(s, sub, i)

\* str.startswith
StartsWith(s, prefix) == OccursAt(s, prefix, 1)

RECURSIVE Concat(_)
\* "".join(parts)
Concat(parts) == IF parts = <<>> THEN <<>> ELSE Head(parts) \o Concat(Tail(parts))

\* all sequences over S of length 0..n
SeqsUpTo(S, n) == UNION {[1..k -> S] : k \in 0..n}

-----------------------------------------------------------------------------
(* RuleEngine._normalize_risk *)

normalize_risk_typical_first(r) ==
    IF ~Truthy(r) THEN None
    ELSE LET t == Lower(Strip(r))
         IN  IF Contains(t, <<"t","y","p","i","c","a","l">>) THEN <<"T","y","p","i","c","a","l">>
             ELSE IF Contains(t, <<"h","i","g","h"," ","r","i","s","k">>) THEN <<"H","i","g","h"," ","R","i","s","k">>
             ELSE IF Contains(t, <<"e","n","h","a","n","c","e","d">>) THEN <<"E","n","h","a","n","c","e","d">>
             ELSE IF t = <<"r","i","s","k">> THEN <<"R","i","s","k">>
             ELSE None

normalize_risk(r) ==
    IF ~Truthy(r) THEN None
    ELSE LET t == Lower(Strip(r))
         IN  IF Contains(t, <<"h","i","g","h"," ","r","i","s","k">>) THEN <<"H","i","g","h"," ","R","i","s","k">>
             ELSE IF Contains(t, <<"t","y","p","i","c","a","l">>) THEN <<"T","y","p","i","c","a","l">>
             ELSE IF Contains(t, <<"e","n","h","a","n","c","e","d">>) THEN <<"E","n","h","a","n","c","e","d">>
             ELSE IF <<"r","i","s","k">> = t THEN <<"R","i","s","k">>
             ELSE None

-----------------------------------------------------------------------------
(* Values of the variables a specification does not use *)

\* Python's None where the value, when present, is an object (a record)
Absent == [absent |-> TRUE]

riskVars == <<result, risk_key>>
rulesVars == <<rules_data, genes, advice_list>>
docVars == <<pdf, pages_text, summary_rows>>
locateVars == <<gene_name, found>>
contextVars == <<context, parsed, cleaned>>
runVars == <<disk, raised, plan_dict, menu, report, session, uploaded_file, args, meals,
            previous>>

\* no exception
NoError == [kind |-> "", message |-> ""]

RiskIdle == result = None /\ risk_key = None
RulesIdle == rules_data = <<>> /\ genes = <<>> /\ advice_list = <<>>
PlanIdle == plan = Absent
DocIdle == pdf = <<>> /\ pages_text = <<>> /\ summary_rows = <<>>
LocateIdle == gene_name = None /\ found = Absent
ContextIdle == context = None /\ parsed = Absent /\ cleaned = Absent
RunIdle ==
    /\ disk = <<>> /\ raised = NoError /\ plan_dict = Absent
    /\ menu = Absent /\ report = None /\ session = <<>> /\ uploaded_file = None
    /\ args = <<>> /\ meals = <<>> /\ previous = <<>>

-----------------------------------------------------------------------------
(* Specification SpecRisk: _normalize_risk applied to one input string *)

MaxRiskFrags == 3

RiskFrags == {<<"H","i","g","h"," ","R","i","s","k">>, <<" ">>, <<"r","i","s","k">>, <<"T","y","p","i","c","a","l">>, <<"E","N","H","A","N","C","E","D">>, <<"x">>}

\* None, the empty string, and every concatenation of up to MaxRiskFrags fragments
RiskInputs == {None} \cup {Concat(fs) : fs \in SeqsUpTo(RiskFrags, MaxRiskFrags)}

InitRisk ==
    /\ pc = "start"
    /\ result \in RiskInputs
    /\ risk_key = None
    /\ RulesIdle /\ PlanIdle /\ DocIdle /\ LocateIdle /\ ContextIdle /\ RunIdle

NormalizeRisk ==
    /\ pc = "start"
    /\ risk_key' = normalize_risk(result)
    /\ pc' = "normalized"
    /\ UNCHANGED <<result, rulesVars, plan, docVars, locateVars, contextVars, runVars>>

NextRisk == NormalizeRisk

SpecRisk == InitRisk /\ [][NextRisk]_vars

\* C1: _normalize_risk returns 'High Risk' when the trimmed lower-cased input
\* contains "high risk"; otherwise 'Typical' when it contains "typical";
\* otherwise 'Enhanced' when it contains "enhanced"; otherwise 'Risk' when it
\* equals "risk"; otherwise None.  None and the empty string give None.
C1_NormalizeRiskPriorityOrder ==
    pc = "normalized" =>
        IF result = None \/ result = <<>> THEN risk_key = None
        ELSE LET t == Lower(Strip(result))
                 hr == Contains(t, <<"h","i","g","h"," ","r","i","s","k">>)
                 ty == Contains(t, <<"t","y","p","i","c","a","l">>)
                 en == Contains(t, <<"e","n","h","a","n","c","e","d">>)
                 rk == (t = <<"r","i","s","k">>)
             IN  /\ hr => risk_key = <<"H","i","g","h"," ","R","i","s","k">>
                 /\ (~hr /\ ty) => risk_key = <<"T","y","p","i","c","a","l">>
                 /\ (~hr /\ ~ty /\ en) => risk_key = <<"E","n","h","a","n","c","e","d">>
                 /\ (~hr /\ ~ty /\ ~en /\ rk) => risk_key = <<"R","i","s","k">>
                 /\ (~hr /\ ~ty /\ ~en /\ ~rk) => risk_key = None

\* an input containing both "high risk" and "typical" has been normalized
C1_Witness ==
    /\ pc = "normalized"
    /\ result # None
    /\ Contains(Lower(result), <<"h","i","g","h"," ","r","i","s","k">>)
    /\ Contains(Lower(result), <<"t","y","p","i","c","a","l">>)
    /\ risk_key = <<"H","i","g","h"," ","R","i","s","k">>

-----------------------------------------------------------------------------
(* Python dicts are functions whose domain is the set of keys present *)

\* dict.get(k, default)
DictGet(d, k, default) == IF k \in DOMAIN d THEN d[k] ELSE default

\* truthiness of a dict: an empty dict is falsy
DictTruthy(d) == DOMAIN d # {}

EmptyDict == <<>>

\* list.reverse()
Reverse(s) == [i \in 1..Len(s) |-> s[Len(s) + 1 - i]]

RECURSIVE InsertAscending(_, _)
\* x placed behind every element whose priority is not greater (stable)
InsertAscending(x, s) ==
    IF s = <<>> THEN <<x>>
    ELSE IF x.priority < Head(s).priority THEN <<x>> \o s
    ELSE <<Head(s)>> \o InsertAscending(x, Tail(s))

RECURSIVE SortAscending(_)
\* stable ascending sort on the key  priority
SortAscending(s) ==
    IF s = <<>> THEN <<>>
    ELSE InsertAscending(s[Len(s)], SortAscending(SubSeq(s, 1, Len(s) - 1)))

\* sorted ascending, then reversed: equal priorities end in reverse input order
sort_by_priority_unstable(s) == Reverse(SortAscending(s))

\* list.sort(key=lambda a: a.priority, reverse=True): CPython reverses the
\* list, sorts it stably in ascending key order and reverses it again
sort_by_priority(s) == Reverse(SortAscending(Reverse(s)))

-----------------------------------------------------------------------------
(* RuleEngine.apply_rules *)

\* isinstance(g, dict): an observation dict has the keys 'gene' and 'risk',
\* a GeneData object the attributes name, page, context, trait, result
IsDict(g) == "gene" \in DOMAIN g

\* the symbol used as is, without upper()
GeneNameOf_as_given(g) == IF IsDict(g) THEN g.gene ELSE g.name

GeneNameOf(g) == IF IsDict(g) THEN Upper(g.gene) ELSE Upper(g.name)

\* the risk of a dict read under the key 'result', which it does not have
RiskLevelOf_dict_without_risk(g) == IF IsDict(g) THEN None ELSE g.result

RiskLevelOf(g) == IF IsDict(g) THEN g.risk ELSE g.result

\* int(mapping.get("priority", 0))
PriorityOf(mapping) == DictGet(mapping, "priority", 0)

\* mapping.get(k, []) or []  for a list-valued key: a null value gives [] like
\* a missing key, so the model writes both as the key being absent
ListGet(mapping, k) == DictGet(mapping, k, <<>>)

\* the GeneRuleAdvice built from one mapping
MakeAdvice(g_name, rule_entry, r_key, mapping) ==
    [gene |-> g_name,
     category |-> DictGet(rule_entry, "category", <<"U","n","k","n","o","w","n">>),
     risk |-> r_key,
     action |-> DictGet(mapping, "action", <<>>),
     foods |-> ListGet(mapping, "foods"),
     supplements |-> ListGet(mapping, "supplements"),
     fitness_notes |-> DictGet(mapping, "fitness_notes", None),
     lifestyle |-> ListGet(mapping, "lifestyle"),
     explanation |-> DictGet(mapping, "explanation", <<>>),
     priority |-> PriorityOf(mapping)]

\* one iteration of the loop over genes: the records it appends (none or one)
apply_rules_step(g, rules) ==
    LET g_name == GeneNameOf(g)
        rule_entry == DictGet(rules, g_name, EmptyDict)
    IN  IF ~DictTruthy(rule_entry) THEN <<>>
        ELSE LET r_key == normalize_risk(RiskLevelOf(g))
             IN  IF ~Truthy(r_key) THEN <<>>
                 ELSE LET mappings == DictGet(rule_entry, "mappings", EmptyDict)
                          mapping == DictGet(mappings, r_key, EmptyDict)
                      IN  IF ~DictTruthy(mapping) THEN <<>>
                          ELSE <<MakeAdvice(g_name, rule_entry, r_key, mapping)>>

\* advice_list as the loop leaves it, before the sort
advice_in_input_order(gs, rules) ==
    Concat([i \in 1..Len(gs) |-> apply_rules_step(gs[i], rules)])

apply_rules(gs, rules) == sort_by_priority(advice_in_input_order(gs, rules))

-----------------------------------------------------------------------------
(* Rule tables (rules.yml as loaded by RuleEngine.__init__) and observations *)

\* a supplements entry is a dict {name, note} or a plain string
SuppDict(d) == [dict |-> d]
SuppStr(s) == [str |-> s]

Rules_BCMO1 ==
    [category |-> <<"n","u","t","r","i","t","i","o","n">>,
     mappings |->
        (<<"H","i","g","h"," ","R","i","s","k">> :>
            [action |-> <<"i","n","c","r","e","a","s","e"," ","v","i","t","a","m","i","n"," ","A">>,
             foods |-> <<<<"l","i","v","e","r">>, <<"e","g","g"," ","y","o","l","k">>>>,
             supplements |-> <<SuppDict([name |-> <<"V","i","t","a","m","i","n"," ","A">>, note |-> <<"r","e","t","i","n","o","l">>]),
                               SuppDict([name |-> <<"Z","i","n","c">>])>>,
             explanation |-> <<"l","o","w"," ","c","o","n","v","e","r","s","i","o","n">>,
             priority |-> 8])
        @@
        (<<"T","y","p","i","c","a","l">> :>
            [action |-> <<"b","a","l","a","n","c","e","d"," ","d","i","e","t">>,
             foods |-> <<<<"c","a","r","r","o","t","s">>>>,
             lifestyle |-> <<<<"s","l","e","e","p">>>>,
             priority |-> 3])]

\* no priority (defaults to 0), empty fitness_notes
Rules_MCM6 ==
    [category |-> <<"n","u","t","r","i","t","i","o","n">>,
     mappings |->
        (<<"H","i","g","h"," ","R","i","s","k">> :>
            [action |-> <<"l","i","m","i","t"," ","l","a","c","t","o","s","e">>,
             fitness_notes |-> <<>>,
             lifestyle |-> <<<<"r","e","a","d"," ","l","a","b","e","l","s">>>>])]

Rules_ACTN3 ==
    [category |-> <<"f","i","t","n","e","s","s">>,
     mappings |->
        (<<"E","n","h","a","n","c","e","d">> :>
            [action |-> <<"p","o","w","e","r">>,
             supplements |-> <<SuppStr(<<"c","r","e","a","t","i","n","e">>)>>,
             fitness_notes |-> <<"s","p","r","i","n","t","s">>,
             priority |-> 8])]

\* an entry without mappings
Rules_FTO == [category |-> <<"w","e","i","g","h","t">>]

\* an entry without category, for the level 'Risk'
Rules_IL6 ==
    [mappings |->
        (<<"R","i","s","k">> :>
            [action |-> <<"a","n","t","i","-","i","n","f","l","a","m","m","a","t","o","r","y">>,
             foods |-> <<<<"b","e","r","r","i","e","s">>>>,
             lifestyle |-> <<<<"s","l","e","e","p">>>>,
             explanation |-> <<>>,
             priority |-> 5])]

FullRules ==
    (<<"B","C","M","O","1">> :> Rules_BCMO1) @@ (<<"M","C","M","6">> :> Rules_MCM6) @@
    (<<"A","C","T","N","3">> :> Rules_ACTN3) @@ (<<"F","T","O">> :> Rules_FTO) @@
    (<<"I","L","6">> :> Rules_IL6) @@
    \* a key that is not upper case is never looked up
    (<<"b","d","n","f">> :> Rules_ACTN3)

\* rules.yml holding one empty entry
SparseRules == (<<"B","C","M","O","1">> :> EmptyDict)

\* an empty rules.yml: yaml.safe_load(f) or {}
RuleTables == {FullRules, SparseRules, EmptyDict}

GeneData(n, p, c, t, r) == [name |-> n, page |-> p, context |-> c, trait |-> t, result |-> r]
ObsDict(g, r) == [gene |-> g, risk |-> r]

ObsChoices ==
    {GeneData(<<"B","C","M","O","1">>, 1, <<"A"," ","B","C","M","O","1"," ","@"," ","H","i","g","h"," ","r","i","s","k">>, <<"A">>, <<"H","i","g","h"," ","r","i","s","k">>),
     ObsDict(<<"b","c","m","o","1">>, <<" ","H","I","G","H"," ","R","I","S","K"," ","t","o","d","a","y">>),
     GeneData(<<"M","C","M","6">>, 2, <<"L","a","c","t","o","s","e"," ","M","C","M","6"," ","@"," ","H","i","g","h"," ","r","i","s","k">>, <<"L","a","c","t","o","s","e">>, <<"H","i","g","h"," ","r","i","s","k">>),
     ObsDict(<<"A","C","T","N","3">>, <<"E","n","h","a","n","c","e","d">>),
     GeneData(<<"B","C","M","O","1">>, 1, <<"A"," ","B","C","M","O","1"," ","@"," ","T","y","p","i","c","a","l">>, <<"A">>, <<"T","y","p","i","c","a","l">>),
     GeneData(<<"B","C","M","O","1">>, 3, <<"s","e","e"," ","B","C","M","O","1">>, <<"s","e","e">>, None),
     ObsDict(<<"F","U","T","2">>, <<"H","i","g","h"," ","r","i","s","k">>),
     GeneData(<<"M","C","M","6">>, 2, <<"L","a","c","t","o","s","e"," ","M","C","M","6"," ","@"," ","E","n","h","a","n","c","e","d">>, <<"L","a","c","t","o","s","e">>, <<"E","n","h","a","n","c","e","d">>),
     GeneData(<<"F","T","O">>, 1, <<"W","e","i","g","h","t"," ","F","T","O"," ","@"," ","T","y","p","i","c","a","l">>, <<"W","e","i","g","h","t">>, <<"T","y","p","i","c","a","l">>),
     ObsDict(<<"I","L","6">>, <<"r","i","s","k">>),
     ObsDict(<<"b","d","n","f">>, <<"E","n","h","a","n","c","e","d">>)}

-----------------------------------------------------------------------------
(* Specification SpecRules: apply_rules on one observation list *)

MaxGenes == 3

InitRules ==
    /\ pc = "genes"
    /\ rules_data \in RuleTables
    /\ genes \in SeqsUpTo(ObsChoices, MaxGenes)
    /\ advice_list = <<>>
    /\ RiskIdle /\ PlanIdle /\ DocIdle /\ LocateIdle /\ ContextIdle /\ RunIdle

\* engine.apply_rules(genes) on the observations at hand
ApplyRules ==
    /\ pc = "genes"
    /\ advice_list' = apply_rules(genes, rules_data)
    /\ pc' = "applied"
    /\ UNCHANGED <<rules_data, genes, riskVars, plan, docVars, locateVars, contextVars, runVars>>

NextRules == ApplyRules

SpecRules == InitRules /\ [][NextRules]_vars

\* the number of indices of s whose element satisfies Test
CountIf(s, Test(_)) == Cardinality({i \in 1..Len(s) : Test(s[i])})

\* conditions (a), (b), (c) of C2 for one observation
C2_Matches(g) ==
    LET sym == Upper(IF IsDict(g) THEN g.gene ELSE g.name)
        lvl == normalize_risk(IF IsDict(g) THEN g.risk ELSE g.result)
    IN  /\ sym \in DOMAIN rules_data
        /\ lvl # None
        /\ "mappings" \in DOMAIN rules_data[sym]
        /\ lvl \in DOMAIN rules_data[sym].mappings

\* C2: apply_rules emits exactly one record for an observation iff its
\* upper-cased gene is a key of the rule table, its risk normalizes to a
\* canonical level and the gene's entry has a mapping for that level; every
\* other observation is skipped.  So for every gene and level the output holds
\* as many records as there are such observations, and never more records than
\* observations.
C2_OneRecordPerMatchingObservation ==
    pc = "applied" =>
        /\ Len(advice_list) <= Len(genes)
        /\ Len(advice_list) = CountIf(genes, C2_Matches)
        /\ \A i \in 1..Len(genes) :
              LET sym == Upper(IF IsDict(genes[i]) THEN genes[i].gene ELSE genes[i].name)
                  lvl == normalize_risk(IF IsDict(genes[i]) THEN genes[i].risk
                                        ELSE genes[i].result)
                  SameObs(g) == /\ C2_Matches(g)
                                /\ Upper(IF IsDict(g) THEN g.gene ELSE g.name) = sym
                                /\ normalize_risk(IF IsDict(g) THEN g.risk ELSE g.result) = lvl
                  SameRec(a) == a.gene = sym /\ a.risk = lvl
              IN  CountIf(advice_list, SameRec) =
                      IF C2_Matches(genes[i]) THEN CountIf(genes, SameObs) ELSE 0

\* a list mixing a matching observation given in lower case, a gene absent
\* from the table and an observation without result has been processed
C2_Witness ==
    /\ pc = "applied"
    /\ Len(genes) = 3
    /\ Len(advice_list) = 1
    /\ \E i \in 1..Len(genes) : IsDict(genes[i]) /\ genes[i].gene = <<"b","c","m","o","1">>
    /\ \E i \in 1..Len(genes) : IsDict(genes[i]) /\ genes[i].gene = <<"F","U","T","2">>
    /\ \E i \in 1..Len(genes) : ~IsDict(genes[i]) /\ genes[i].result = None

\* C3: the list apply_rules returns is ordered by priority descending, and
\* records of equal priority keep the relative order of their observations.
C3_SortedDescendingStable ==
    pc = "applied" =>
        /\ \A i \in 1..Len(advice_list) : \A j \in 1..Len(advice_list) :
              i < j => advice_list[i].priority >= advice_list[j].priority
        /\ \A p \in {advice_list[i].priority : i \in 1..Len(advice_list)} :
              LET HasP(a) == a.priority = p
              IN  SelectSeq(advice_list, HasP) =
                      SelectSeq(advice_in_input_order(genes, rules_data), HasP)

\* two records of equal priority and different genes were emitted out of
\* priority order
C3_Witness ==
    /\ pc = "applied"
    /\ Len(advice_list) = 3
    /\ advice_list[1].priority = advice_list[2].priority
    /\ advice_list[1].gene # advice_list[2].gene
    /\ advice_list # advice_in_input_order(genes, rules_data)

-----------------------------------------------------------------------------
(* PlanGenerator.generate_plan *)

\* advice.explanation or advice.action
DescriptionOf(advice) ==
    IF Truthy(advice.explanation) THEN advice.explanation ELSE advice.action

\* the NutritionItem appended for one record (none when foods is empty)
nutrition_items_of(advice) ==
    IF advice.foods # <<>>
    THEN <<[title |-> advice.gene \o <<":"," ">> \o advice.category,
            description |-> DescriptionOf(advice),
            foods_to_focus |-> advice.foods,
            foods_to_limit |-> <<>>,
            related_genes |-> <<advice.gene>>,
            priority |-> advice.priority]>>
    ELSE <<>>

\* supp.get("name") if isinstance(supp, dict) else str(supp)
SuppName(supp) ==
    IF "dict" \in DOMAIN supp THEN DictGet(supp.dict, "name", None) ELSE supp.str

\* supp.get("note") if isinstance(supp, dict) else ""
SuppNote(supp) ==
    IF "dict" \in DOMAIN supp THEN DictGet(supp.dict, "note", None) ELSE <<>>

SupplementItem(advice, supp) ==
    [name |-> SuppName(supp),
     description |->
        IF Truthy(SuppNote(supp)) THEN SuppNote(supp)
        ELSE <<"S","u","g","g","e","s","t","e","d"," ","f","o","r"," ">> \o advice.gene \o <<" ","(">> \o advice.risk \o <<")",".">>,
     typical_dosage |-> None,
     timing |-> None,
     related_genes |-> <<advice.gene>>,
     priority |-> advice.priority]

\* one item for the whole record, built from its first entry
supplement_items_of_first_only(advice) ==
    IF advice.supplements # <<>>
    THEN <<SupplementItem(advice, advice.supplements[1])>>
    ELSE <<>>

\* the SupplementItems appended for one record: one per entry
supplement_items_of(advice) ==
    [k \in 1..Len(advice.supplements) |-> SupplementItem(advice, advice.supplements[k])]

\* the FitnessItem appended for one record (none when fitness_notes is falsy)
fitness_items_of(advice) ==
    IF Truthy(advice.fitness_notes)
    THEN <<[title |-> advice.gene \o <<"-","d","r","i","v","e","n"," ","t","r","a","i","n","i","n","g"," ","f","o","c","u","s">>,
            description |-> advice.fitness_notes,
            focus |-> <<>>,
            frequency_per_week |-> None,
            related_genes |-> <<advice.gene>>,
            priority |-> advice.priority]>>
    ELSE <<>>

\* the LifestyleItem appended for one record (none when lifestyle is empty)
lifestyle_items_of(advice) ==
    IF advice.lifestyle # <<>>
    THEN <<[title |-> advice.gene \o <<":"," ","l","i","f","e","s","t","y","l","e"," ","f","o","c","u","s">>,
            description |-> DescriptionOf(advice),
            habits |-> advice.lifestyle,
            related_genes |-> <<advice.gene>>,
            priority |-> advice.priority]>>
    ELSE <<>>

RECURSIVE MergeByTitle(_)
\* an item whose title an earlier item already has is folded into that item
MergeByTitle(items) ==
    IF items = <<>> THEN <<>>
    ELSE LET front == MergeByTitle(SubSeq(items, 1, Len(items) - 1))
             last == items[Len(items)]
         IN  IF \E k \in 1..Len(front) : front[k].title = last.title
             THEN front
             ELSE Append(front, last)

\* NutritionItems of equal title combined into one
nutrition_items_merged(l) ==
    MergeByTitle(Concat([i \in 1..Len(l) |-> nutrition_items_of(l[i])]))

\* the four lists as the loop over advice_list leaves them, before the sorts
nutrition_items(l) == Concat([i \in 1..Len(l) |-> nutrition_items_of(l[i])])
supplement_items(l) == Concat([i \in 1..Len(l) |-> supplement_items_of(l[i])])
fitness_items(l) == Concat([i \in 1..Len(l) |-> fitness_items_of(l[i])])
lifestyle_items(l) == Concat([i \in 1..Len(l) |-> lifestyle_items_of(l[i])])

\* the sections left in the order of appending
section_unsorted(items) == items

\* one section of the plan: items.sort(key=lambda x: x.priority, reverse=True)
section(items) == sort_by_priority(items)

generate_plan(l) ==
    [nutrition |-> section(nutrition_items(l)),
     fitness |-> section(fitness_items(l)),
     supplements |-> section(supplement_items(l)),
     lifestyle |-> section(lifestyle_items(l)),
     summary |-> None]

-----------------------------------------------------------------------------
(* Specification SpecPlan: generate_plan on one list of GeneRuleAdvice *)

MaxAdvice == 3

\* a record as apply_rules builds it from the rule table
AdviceFor(sym, lvl) ==
    MakeAdvice(sym, FullRules[sym], lvl, FullRules[sym].mappings[lvl])

\* the records of the lifestyle scenario: GENE_A priority 3, GENE_B priority 9
Advice_GENE_A ==
    [gene |-> <<"G","E","N","E","_","A">>, category |-> <<"l","i","f","e","s","t","y","l","e">>, risk |-> <<"T","y","p","i","c","a","l">>,
     action |-> <<"w","a","l","k">>, foods |-> <<>>, supplements |-> <<>>,
     fitness_notes |-> None, lifestyle |-> <<<<"w","a","l","k"," ","d","a","i","l","y">>>>,
     explanation |-> <<"a">>, priority |-> 3]

Advice_GENE_B ==
    [gene |-> <<"G","E","N","E","_","B">>, category |-> <<"l","i","f","e","s","t","y","l","e">>, risk |-> <<"H","i","g","h"," ","R","i","s","k">>,
     action |-> <<"r","e","s","t">>, foods |-> <<>>, supplements |-> <<>>,
     fitness_notes |-> None, lifestyle |-> <<<<"s","l","e","e","p">>>>,
     explanation |-> <<"b">>, priority |-> 9]

AdviceChoices ==
    {AdviceFor(<<"B","C","M","O","1">>, <<"H","i","g","h"," ","R","i","s","k">>),
     AdviceFor(<<"B","C","M","O","1">>, <<"T","y","p","i","c","a","l">>),
     AdviceFor(<<"M","C","M","6">>, <<"H","i","g","h"," ","R","i","s","k">>),
     AdviceFor(<<"A","C","T","N","3">>, <<"E","n","h","a","n","c","e","d">>),
     Advice_GENE_A,
     Advice_GENE_B}

InitPlan ==
    /\ pc = "start"
    /\ advice_list \in SeqsUpTo(AdviceChoices, MaxAdvice)
    /\ rules_data = <<>> /\ genes = <<>>
    /\ plan = Absent
    /\ RiskIdle /\ DocIdle /\ LocateIdle /\ ContextIdle /\ RunIdle

GeneratePlan ==
    /\ pc = "start"
    /\ plan' = generate_plan(advice_list)
    /\ pc' = "planned"
    /\ UNCHANGED <<rulesVars, riskVars, docVars, locateVars, contextVars, runVars>>

NextPlan == GeneratePlan

SpecPlan == InitPlan /\ [][NextPlan]_vars

\* the items of priority p, in the order they have in items
WithPriority(items, p) ==
    LET HasP(x) == x.priority = p IN SelectSeq(items, HasP)

\* items is ordered by priority descending and, within one priority, as appended
C4_SortedStable(items, appended) ==
    /\ \A i \in 1..Len(items) : \A j \in 1..Len(items) :
          i < j => items[i].priority >= items[j].priority
    /\ Len(items) = Len(appended)
    /\ \A p \in {appended[i].priority : i \in 1..Len(appended)} :
          WithPriority(items, p) = WithPriority(appended, p)

\* C4: each of the four sections of the plan generate_plan returns is sorted
\* by priority descending, items of equal priority keeping the order in which
\* they were appended (record order, entry order within one record).
C4_SectionsSortedStable ==
    pc = "planned" =>
        /\ C4_SortedStable(plan.nutrition, nutrition_items(advice_list))
        /\ C4_SortedStable(plan.fitness, fitness_items(advice_list))
        /\ C4_SortedStable(plan.supplements, supplement_items(advice_list))
        /\ C4_SortedStable(plan.lifestyle, lifestyle_items(advice_list))

\* the priority-3 record GENE_A came before the priority-9 record GENE_B and
\* the lifestyle section lists GENE_B first
C4_Witness ==
    /\ pc = "planned"
    /\ advice_list = <<Advice_GENE_A, Advice_GENE_B>>
    /\ Len(plan.lifestyle) = 2
    /\ plan.lifestyle[1].related_genes = <<<<"G","E","N","E","_","B">>>>
    /\ plan.lifestyle[2].related_genes = <<<<"G","E","N","E","_","A">>>>

RECURSIVE SumLen(_)
\* the total number of supplement entries of the records of l
SumLen(l) == IF l = <<>> THEN 0 ELSE Len(Head(l).supplements) + SumLen(Tail(l))

C5_HasFoods(a) == a.foods # <<>>
C5_HasLifestyle(a) == a.lifestyle # <<>>
C5_FitnessPresent(a) == a.fitness_notes # None
C5_FitnessNonEmpty(a) == a.fitness_notes # None /\ a.fitness_notes # <<>>

\* C5 as claimed: nutrition count = records with non-empty foods; fitness
\* count = records whose fitness_notes is present (not None); lifestyle count =
\* records with non-empty lifestyle; supplements count = the sum of the
\* records' numbers of supplement entries.
C5_AsClaimed ==
    pc = "planned" =>
        /\ Len(plan.nutrition) = CountIf(advice_list, C5_HasFoods)
        /\ Len(plan.fitness) = CountIf(advice_list, C5_FitnessPresent)
        /\ Len(plan.lifestyle) = CountIf(advice_list, C5_HasLifestyle)
        /\ Len(plan.supplements) = SumLen(advice_list)

\* C5: nutrition count = records with non-empty foods; fitness count = records
\* whose fitness_notes is present and not the empty string; lifestyle count =
\* records with non-empty lifestyle; supplements count = the sum of the
\* records' numbers of supplement entries.  So a record with foods or
\* supplements gives the plan a nutrition or supplement item.
C5_SectionCounts ==
    pc = "planned" =>
        /\ Len(plan.nutrition) = CountIf(advice_list, C5_HasFoods)
        /\ Len(plan.fitness) = CountIf(advice_list, C5_FitnessNonEmpty)
        /\ Len(plan.lifestyle) = CountIf(advice_list, C5_HasLifestyle)
        /\ Len(plan.supplements) = SumLen(advice_list)
        /\ (\E i \in 1..Len(advice_list) :
                advice_list[i].foods # <<>> \/ advice_list[i].supplements # <<>>)
           => Len(plan.nutrition) >= 1 \/ Len(plan.supplements) >= 1

\* a record with two supplement entries and a record with empty fitness_notes
\* went into the plan
C5_Witness ==
    /\ pc = "planned"
    /\ \E i \in 1..Len(advice_list) : Len(advice_list[i].supplements) = 2
    /\ \E i \in 1..Len(advice_list) : advice_list[i].fitness_notes = <<>>
    /\ Len(plan.supplements) >= 2
    /\ Len(plan.fitness) = 0

-----------------------------------------------------------------------------
(* PDFExtractor: the document and find_gene *)

\* the marker glyph U+2B24 of the report
Marker == "@"

CONTEXT_RADIUS == 250

PRIORITY_GENES ==
    <<<<"B","C","M","O","1">>, <<"M","C","M","6">>, <<"F","T","O">>, <<"A","D","R","B","2">>, <<"A","C","T","N","3">>,
      <<"C","Y","P","1","A","2">>, <<"I","L","6">>, <<"A","L","D","H","2">>, <<"T","C","F","7","L","2">>, <<"B","D","N","F">>>>

Min(a, b) == IF a <= b THEN a ELSE b
Max(a, b) == IF a >= b THEN a ELSE b
MinOf(S) == CHOOSE x \in S : \A y \in S : x <= y
MaxOf(S) == CHOOSE x \in S : \A y \in S : y <= x

\* a page of the document: what page.extract_text() and page.extract_table()
\* return for it (None for no text, the empty list for no table)
Page(t, tb) == [text |-> t, table |-> tb]

\* sub occurs in s at position i, letter case ignored (re.IGNORECASE)
OccursAtIgnoreCase(s, sub, i) ==
    /\ i >= 1
    /\ i + Len(sub) - 1 <= Len(s)
    /\ \A k \in 1..Len(sub) : LowerChar(s[i + k - 1]) = LowerChar(sub[k])

\* the regex assertion \b between the characters i-1 and i of text
WordBoundary(text, i) ==
    (i >= 1 /\ i <= Len(text) /\ IsWordChar(text[i]))
        # (i - 1 >= 1 /\ i - 1 <= Len(text) /\ IsWordChar(text[i - 1]))

\* the positions at which \bGENE\b matches text
WordMatches(text, gene) ==
    {i \in 1..(Len(text) - Len(gene) + 1) :
        /\ OccursAtIgnoreCase(text, gene, i)
        /\ WordBoundary(text, i)
        /\ WordBoundary(text, i + Len(gene))}

\* the match is taken where the symbol occurs last on the page
match_start_last(text, gene) == MaxOf(WordMatches(text, gene))

\* pattern.search(text): the leftmost match (its 1-based position)
match_start(text, gene) == MinOf(WordMatches(text, gene))

\* the slice is returned as cut, newlines included
ReplaceNewlines_kept(s) == s

\* str.replace("\n", " ")
ReplaceNewlines(s) == [i \in 1..Len(s) |-> IF s[i] = "\n" THEN " " ELSE s[i]]

\* text[start:end] around the match at 1-based position i
Snippet(text, gene, i) ==
    LET start == Max((i - 1) - CONTEXT_RADIUS, 0)
        end == Min((i - 1) + Len(gene) + CONTEXT_RADIUS, Len(text))
    IN  ReplaceNewlines(SubSeq(text, start + 1, end))

\* the loop over enumerate(self._pages_text): the first page with a match
first_page_with_match(pages, gene) ==
    MinOf({p \in 1..Len(pages) : WordMatches(pages[p], gene) # {}})

\* find_gene once the page texts are loaded
find_gene(gene, pages) ==
    IF \A p \in 1..Len(pages) : WordMatches(pages[p], gene) = {}
    THEN Absent
    ELSE LET p == first_page_with_match(pages, gene)
             i == match_start(pages[p], gene)
         IN  GeneData(gene, p, Snippet(pages[p], gene, i), None, None)

\* load_pdf_text: page.extract_text() or "" for every page
load_pdf_text(doc) ==
    [p \in 1..Len(doc) |-> IF doc[p].text = None THEN <<>> ELSE doc[p].text]

-----------------------------------------------------------------------------
(* Specification SpecLocate: find_gene for one symbol on one document *)

MaxPages == 2
FillerLen == 300

\* text longer than the context radius, without word characters
Filler == [i \in 1..FillerLen |-> "."]

PageTexts ==
    {<<"V","i","t","a","m","i","n"," ","A"," ","R","e","q","u","i","r","e","m","e","n","t"," ","B","C","M","O","1"," ","@"," ","H","i","g","h"," ","r","i","s","k","\n","L","a","c","t","o","s","e"," ","m","c","m","6"," ","@"," ","T","y","p","i","c","a","l">>,
     <<"X","B","C","M","O","1"," ","B","C","M","O","1","_"," ","b","c","m","o","1","2"," ","M","C","M","6","x">>,
     <<"s","e","e"," ","b","c","m","o","1","-","x",".","\n">> \o Filler \o <<" ","B","C","M","O","1"," ","@"," ","T","y","p","i","c","a","l"," ","M","C","M","6">>,
     Filler \o <<"L","a","c","t","o","s","e","\n","M","C","M","6"," ","@"," ","E","n","h","a","n","c","e","d">> \o Filler,
     <<>>,
     None}

LocateDocs == SeqsUpTo({Page(t, <<>>) : t \in PageTexts}, MaxPages)

LocateSymbols == {<<"B","C","M","O","1">>, <<"m","c","m","6">>, <<"F","T","O">>}

InitLocate ==
    /\ pc = "start"
    /\ pdf \in LocateDocs
    /\ gene_name \in LocateSymbols
    /\ pages_text = <<>> /\ summary_rows = <<>>
    /\ found = Absent
    /\ RiskIdle /\ RulesIdle /\ PlanIdle /\ ContextIdle /\ RunIdle

\* extractor.load_pdf_text(): ValueError when the document has no page
LoadPdfText ==
    /\ pc = "start"
    /\ IF pdf = <<>>
       THEN pc' = "ValueError" /\ pages_text' = <<>>
       ELSE pc' = "loaded" /\ pages_text' = load_pdf_text(pdf)
    /\ UNCHANGED <<pdf, summary_rows, locateVars, riskVars, rulesVars, plan, contextVars, runVars>>

\* extractor.find_gene(gene_name), loading the text first when none is loaded
FindGene ==
    /\ pc \in {"start", "loaded"}
    /\ IF pages_text = <<>> /\ pdf = <<>>
       THEN pc' = "ValueError" /\ UNCHANGED <<pages_text, found>>
       ELSE /\ pages_text' = IF pages_text = <<>> THEN load_pdf_text(pdf) ELSE pages_text
            /\ found' = find_gene(gene_name, pages_text')
            /\ pc' = "found"
    /\ UNCHANGED <<pdf, summary_rows, gene_name, riskVars, rulesVars, plan, contextVars, runVars>>

NextLocate == LoadPdfText \/ FindGene

SpecLocate == InitLocate /\ [][NextLocate]_vars

\* text holds the symbol sym at position i as a whole word, letter case ignored
C10_WholeWordAt(text, sym, i) ==
    /\ i >= 1 /\ i + Len(sym) - 1 <= Len(text)
    /\ LowerChar(text[i]) = LowerChar(sym[1])
    /\ Lower(SubSeq(text, i, i + Len(sym) - 1)) = Lower(sym)
    /\ (i = 1 \/ ~IsWordChar(text[i - 1]))
    /\ (i + Len(sym) - 1 = Len(text) \/ ~IsWordChar(text[i + Len(sym)]))

C10_Occurrences(text, sym) == {i \in 1..Len(text) : C10_WholeWordAt(text, sym, i)}

\* C10: find_gene returns None when no page holds the symbol as a whole word
\* (letter case ignored); otherwise the observation's page is the first page
\* with such an occurrence and its context is the window around the first
\* occurrence on that page, whatever occurs later.
C10_FirstOccurrenceOnly ==
    pc = "found" =>
        LET hits == {p \in 1..Len(pages_text) : C10_Occurrences(pages_text[p], gene_name) # {}}
        IN  IF hits = {} THEN found = Absent
            ELSE /\ found # Absent
                 /\ found.name = gene_name
                 /\ \A q \in hits : found.page <= q
                 /\ found.page \in hits
                 /\ LET text == pages_text[found.page]
                        occ == C10_Occurrences(text, gene_name)
                        i == CHOOSE x \in occ : \A y \in occ : x <= y
                        lo == IF i - CONTEXT_RADIUS > 1 THEN i - CONTEXT_RADIUS ELSE 1
                        hi == IF i + Len(gene_name) - 1 + CONTEXT_RADIUS < Len(text)
                              THEN i + Len(gene_name) - 1 + CONTEXT_RADIUS ELSE Len(text)
                    IN  /\ Len(found.context) = hi - lo + 1
                        /\ \A k \in 1..(hi - lo + 1) :
                              found.context[k] =
                                  IF text[lo + k - 1] = "\n" THEN " " ELSE text[lo + k - 1]

\* the symbol occurs twice on the second page, further apart than the radius,
\* after a first page holding it only inside longer words
C10_Witness ==
    /\ pc = "found"
    /\ gene_name = <<"B","C","M","O","1">>
    /\ Len(pages_text) = 2
    /\ C10_Occurrences(pages_text[1], gene_name) = {}
    /\ Cardinality(C10_Occurrences(pages_text[2], gene_name)) = 2
    /\ found # Absent
    /\ found.page = 2
    /\ Len(found.context) < Len(pages_text[2])

-----------------------------------------------------------------------------
(* PDFExtractor._parse_trait_result_from_context *)

TRAIT_WINDOW == 80

\* the regex class [A-Za-z ]
InClass(c) == IsLetter(c) \/ c = " "

RECURSIVE SkipClass(_, _)
\* where a greedy [A-Za-z ]* starting at j ends
SkipClass(s, j) == IF j <= Len(s) /\ InClass(s[j]) THEN SkipClass(s, j + 1) ELSE j

RECURSIVE SkipClassBack(_, _)
\* the first position of the run of [A-Za-z ] characters that ends at j
SkipClassBack(s, j) == IF j >= 1 /\ InClass(s[j]) THEN SkipClassBack(s, j - 1) ELSE j + 1

RECURSIVE SkipWord(_, _)
\* where a run of non-white-space characters starting at j ends
SkipWord(s, j) == IF j <= Len(s) /\ ~IsSpace(s[j]) THEN SkipWord(s, j + 1) ELSE j

NoMatch == <<0, 0>>

\* \s+GENE\s+@\s+([A-Za-z ]+) matched from position j on: the first and last
\* position of group 2, or NoMatch.  Each \s+ takes the whole run of white
\* space, the last one giving back characters until group 2 can start.
PrimaryTail(ctx, gene, j) ==
    LET k == SkipSpaces(ctx, j)
        e == k + Len(gene)
        m == SkipSpaces(ctx, e)
        q == SkipSpaces(ctx, m + 2)
        starts == {s \in (m + 2)..q : s <= Len(ctx) /\ InClass(ctx[s])}
    IN  IF /\ j <= Len(ctx) /\ IsSpace(ctx[j])
           /\ OccursAtIgnoreCase(ctx, gene, k)
           /\ m > e /\ m <= Len(ctx) /\ ctx[m] = Marker
           /\ m + 1 <= Len(ctx) /\ IsSpace(ctx[m + 1])
           /\ starts # {}
        THEN <<MaxOf(starts), SkipClass(ctx, MaxOf(starts)) - 1>>
        ELSE NoMatch

\* ([A-Za-z][A-Za-z ]+?) can span the positions i..j-1
Group1(ctx, i, j) ==
    /\ i >= 1 /\ j >= i + 2
    /\ IsLetter(ctx[i])
    /\ \A x \in (i + 1)..(j - 1) : InClass(ctx[x])

\* the pairs <<i, j>>: a match of the whole pattern starts at i with group 1
\* ending before j
PrimaryMatches(ctx, gene) ==
    LET js == {j \in 1..Len(ctx) : IsSpace(ctx[j]) /\ PrimaryTail(ctx, gene, j) # NoMatch}
    IN  UNION {{<<i, j>> : i \in {x \in SkipClassBack(ctx, j - 1)..(j - 2) : Group1(ctx, x, j)}} :
               j \in js}

ResultWords == <<<<"H","i","g","h"," ","r","i","s","k">>, <<"T","y","p","i","c","a","l">>, <<"E","n","h","a","n","c","e","d">>, <<"M","o","d","e","r","a","t","e">>, <<"S","l","i","g","h","t","l","y"," ","E","n","h","a","n","c","e","d">>>>

\* the positions m of a marker at which  @\s+(High risk|Typical|...)  matches
SecondaryMatches(ctx) ==
    {m \in 1..Len(ctx) :
        /\ ctx[m] = Marker
        /\ m + 1 <= Len(ctx) /\ IsSpace(ctx[m + 1])
        /\ \E w \in 1..Len(ResultWords) :
              OccursAtIgnoreCase(ctx, ResultWords[w], SkipSpaces(ctx, m + 1))}

\* m2.group(1).strip() if m2 else None
SecondaryResult(ctx) ==
    IF SecondaryMatches(ctx) = {} THEN None
    ELSE LET m == MinOf(SecondaryMatches(ctx))
             q == SkipSpaces(ctx, m + 1)
             w == MinOf({v \in 1..Len(ResultWords) : OccursAtIgnoreCase(ctx, ResultWords[v], q)})
         IN  Strip(SubSeq(ctx, q, q + Len(ResultWords[w]) - 1))

\* context.upper().find(gene_name.upper()) + 1, 0 when not found
FindUpper(ctx, gene) ==
    LET at == {i \in 1..(Len(ctx) - Len(gene) + 1) : OccursAt(Upper(ctx), Upper(gene), i)}
    IN  IF at = {} THEN 0 ELSE MinOf(at)

\* the text of up to TRAIT_WINDOW characters before the gene, stripped
SecondaryTrait(ctx, gene) ==
    LET g == FindUpper(ctx, gene)
    IN  IF g = 0 THEN None
        ELSE LET prefix == Strip(SubSeq(ctx, Max(0, (g - 1) - TRAIT_WINDOW) + 1, g - 1))
             IN  IF prefix # <<>> THEN prefix ELSE None

parse_trait_result_from_context(gene, ctx) ==
    LET ms == PrimaryMatches(ctx, gene)
    IN  IF ms # {}
        THEN LET i == MinOf({x[1] : x \in ms})
                 j == MinOf({x[2] : x \in {y \in ms : y[1] = i}})
                 g2 == PrimaryTail(ctx, gene, j)
             IN  [trait |-> Strip(SubSeq(ctx, i, j - 1)),
                  result |-> Strip(SubSeq(ctx, g2[1], g2[2]))]
        ELSE [trait |-> SecondaryTrait(ctx, gene), result |-> SecondaryResult(ctx)]

-----------------------------------------------------------------------------
(* PDFExtractor._clean_trait_result *)

RECURSIVE Split(_)
\* str.split(): the words between runs of white space
Split(s) ==
    LET a == SkipSpaces(s, 1)
    IN  IF a > Len(s) THEN <<>>
        ELSE <<SubSeq(s, a, SkipWord(s, a) - 1)>> \o Split(SubSeq(s, SkipWord(s, a), Len(s)))

RECURSIVE JoinSpace(_)
\* " ".join(words)
JoinSpace(ws) ==
    IF ws = <<>> THEN <<>>
    ELSE IF Len(ws) = 1 THEN ws[1]
    ELSE ws[1] \o <<" ">> \o JoinSpace(Tail(ws))

HeaderPrefix == <<"S","u","m","m","a","r","y"," ","o","f"," ","R","e","s","u","l","t","s"," ","T","r","a","i","t"," ","G","e","n","e","s"," ","R","e","s","u","l","t">>

NoiseWords == <<<<"T","y","p","i","c","a","l"," ">>, <<"H","i","g","h"," ","r","i","s","k"," ">>, <<"E","n","h","a","n","c","e","d"," ">>, <<"M","o","d","e","r","a","t","e"," ">>, <<"S","l","i","g","h","t","l","y"," ","E","n","h","a","n","c","e","d"," ">>>>

\* t[len(prefix):].strip() if t.startswith(prefix) else t
DropPrefix(t, prefix) ==
    IF StartsWith(t, prefix) THEN Strip(SubSeq(t, Len(prefix) + 1, Len(t))) ELSE t

RECURSIVE StripNoise(_, _)
\* the loop over the noise words, each tried once, in order
StripNoise(t, noises) ==
    IF noises = <<>> THEN t
    ELSE StripNoise(DropPrefix(t, Head(noises)), Tail(noises))

\* a long trait cut to its first 5 words
CleanTrait_keep_five(trait) ==
    IF ~Truthy(trait) THEN trait
    ELSE LET t == StripNoise(DropPrefix(Strip(trait), HeaderPrefix), NoiseWords)
             words == Split(t)
             cut == IF Len(words) >= 6 THEN JoinSpace(SubSeq(words, 1, 5)) ELSE t
         IN  IF cut # <<>> THEN cut ELSE None

CleanTrait(trait) ==
    IF ~Truthy(trait) THEN trait
    ELSE LET t == StripNoise(DropPrefix(Strip(trait), HeaderPrefix), NoiseWords)
             words == Split(t)
             cut == IF Len(words) >= 6 THEN JoinSpace(SubSeq(words, 1, 4)) ELSE t
         IN  IF cut # <<>> THEN cut ELSE None

CleanResult(res) ==
    IF ~Truthy(res) THEN res
    ELSE LET r == Strip(res)
             words == Split(r)
             cut == IF Len(words) > 3 THEN JoinSpace(SubSeq(words, 1, 3)) ELSE r
         IN  IF cut # <<>> THEN cut ELSE None

clean_trait_result(trait, res) == [trait |-> CleanTrait(trait), result |-> CleanResult(res)]

-----------------------------------------------------------------------------
(* Specification SpecContext: the context parser on one context string *)

MaxCtxFrags == 4

CtxFrags ==
    {<<"V","i","t","a","m","i","n"," ","A"," ","R","e","q","u","i","r","e","m","e","n","t"," ">>, <<"B","C","M","O","1"," ">>, <<"@"," ">>, <<"H","i","g","h"," ","r","i","s","k">>, <<"A"," ">>,
     <<"T","y","p","i","c","a","l"," ">>, <<"b","c","m","o","1"," ">>, <<"F","U","T","2"," ">>}

Contexts == {Concat(fs) : fs \in SeqsUpTo(CtxFrags, MaxCtxFrags)}

InitContext ==
    /\ pc = "start"
    /\ gene_name = <<"B","C","M","O","1">>
    /\ context \in Contexts
    /\ parsed = Absent /\ cleaned = Absent
    /\ found = Absent
    /\ RiskIdle /\ RulesIdle /\ PlanIdle /\ DocIdle /\ RunIdle

ParseTraitResult ==
    /\ pc = "start"
    /\ parsed' = parse_trait_result_from_context(gene_name, context)
    /\ pc' = "parsed"
    /\ UNCHANGED <<context, cleaned, locateVars, riskVars, rulesVars, plan, docVars, runVars>>

CleanTraitResult ==
    /\ pc = "parsed"
    /\ cleaned' = clean_trait_result(parsed.trait, parsed.result)
    /\ pc' = "cleaned"
    /\ UNCHANGED <<context, parsed, locateVars, riskVars, rulesVars, plan, docVars, runVars>>

NextContext == ParseTraitResult \/ CleanTraitResult

SpecContext == InitContext /\ [][NextContext]_vars

\* the first position of the run of letters and spaces that ends at position b
C8_RunStart(ctx, b) ==
    CHOOSE a \in 1..b :
        /\ \A x \in a..b : IsLetter(ctx[x]) \/ ctx[x] = " "
        /\ (a = 1 \/ ~(IsLetter(ctx[a - 1]) \/ ctx[a - 1] = " "))

\* the last position of the run of letters and spaces that starts at position a
C8_RunEnd(ctx, a) ==
    CHOOSE b \in a..Len(ctx) :
        /\ \A x \in a..b : IsLetter(ctx[x]) \/ ctx[x] = " "
        /\ (b = Len(ctx) \/ ~(IsLetter(ctx[b + 1]) \/ ctx[b + 1] = " "))

\* the last position before k that holds no white space (0 if none)
C8_WordEndBefore(ctx, k) ==
    LET S == {x \in 1..(k - 1) : ~IsSpace(ctx[x])} IN IF S = {} THEN 0 ELSE MaxOf(S)

\* the first position after e that holds no white space (Len+1 if none)
C8_NextAfter(ctx, e) ==
    LET S == {x \in (e + 1)..Len(ctx) : ~IsSpace(ctx[x])} IN IF S = {} THEN Len(ctx) + 1 ELSE MinOf(S)

\* the symbol stands at position k of ctx, after white space that follows a
\* letter, and is followed by white space, the marker, white space and a letter
C8_ShapeAt(ctx, sym, k) ==
    /\ k >= 2 /\ k + Len(sym) - 1 <= Len(ctx)
    /\ IsSpace(ctx[k - 1])
    /\ Lower(SubSeq(ctx, k, k + Len(sym) - 1)) = Lower(sym)
    /\ C8_WordEndBefore(ctx, k) >= 1 /\ IsLetter(ctx[C8_WordEndBefore(ctx, k)])
    /\ LET e == k + Len(sym) - 1
           m == C8_NextAfter(ctx, e)
           q == C8_NextAfter(ctx, m)
       IN  /\ m > e + 1 /\ m <= Len(ctx) /\ ctx[m] = Marker
           /\ q > m + 1 /\ q <= Len(ctx) /\ IsLetter(ctx[q])

\* the word run immediately preceding the symbol at k
C8_TraitAt(ctx, k) ==
    LET b == C8_WordEndBefore(ctx, k) IN Strip(SubSeq(ctx, C8_RunStart(ctx, b), b))

\* the word run immediately following the marker after the symbol at k
C8_ResultAt(ctx, sym, k) ==
    LET q == C8_NextAfter(ctx, C8_NextAfter(ctx, k + Len(sym) - 1))
    IN  Strip(SubSeq(ctx, q, C8_RunEnd(ctx, q)))

C8_Shapes(ctx, sym) == {k \in 1..Len(ctx) : C8_ShapeAt(ctx, sym, k)}

ScenarioA == <<"V","i","t","a","m","i","n"," ","A"," ","R","e","q","u","i","r","e","m","e","n","t"," ","B","C","M","O","1"," ","@"," ","H","i","g","h"," ","r","i","s","k">>

\* C8 as claimed: whenever the symbol is preceded by a run of one or more
\* alphabetic words and followed by the marker and a run of alphabetic words,
\* trait is the word run before the symbol and result the word run after the
\* marker (at the first such place); for the context
\* "Vitamin A Requirement BCMO1 @ High risk" that is "Vitamin A Requirement"
\* and "High risk", which normalizes to 'High Risk'.
C8_AsClaimed ==
    pc = "parsed" =>
        /\ C8_Shapes(context, gene_name) # {} =>
              LET k == MinOf(C8_Shapes(context, gene_name))
              IN  /\ parsed.trait = C8_TraitAt(context, k)
                  /\ parsed.result = C8_ResultAt(context, gene_name, k)
        /\ context = ScenarioA =>
              /\ parsed.trait = <<"V","i","t","a","m","i","n"," ","A"," ","R","e","q","u","i","r","e","m","e","n","t">>
              /\ parsed.result = <<"H","i","g","h"," ","r","i","s","k">>
              /\ normalize_risk(parsed.result) = <<"H","i","g","h"," ","R","i","s","k">>

-----------------------------------------------------------------------------
(* PDFExtractor.parse_summary_tables, get_gene_summary,
   get_priority_genes_with_summary *)

\* zero-based indexes of the pages searched for a summary table
SUMMARY_PAGE_INDEXES == <<1, 2, 3, 4>>

\* h.strip() if h else "": a cell is a string or None
CellText(c) == IF Truthy(c) THEN Strip(c) ELSE <<>>

\* list.index(x) + 1; 0 stands for the ValueError
ListIndex(l, x) ==
    LET at == {i \in 1..Len(l) : l[i] = x} IN IF at = {} THEN 0 ELSE MinOf(at)

RECURSIVE SplitOn(_, _)
\* str.split(sep) for a one-character separator
SplitOn(s, sep) ==
    LET at == {i \in 1..Len(s) : s[i] = sep}
    IN  IF at = {} THEN <<s>>
        ELSE <<SubSeq(s, 1, MinOf(at) - 1)>> \o SplitOn(SubSeq(s, MinOf(at) + 1, Len(s)), sep)

\* every comma-separated token is kept, trimmed, the empty ones too
GeneList_keep_empty(genes_field) ==
    LET parts == SplitOn(genes_field, ",")
    IN  [i \in 1..Len(parts) |-> Strip(parts[i])]

\* [g.strip() for g in genes.split(",") if g.strip()]
GeneList(genes_field) ==
    LET parts == SplitOn(genes_field, ",")
        NonEmpty(g) == Strip(g) # <<>>
        kept == SelectSeq(parts, NonEmpty)
    IN  [i \in 1..Len(kept) |-> Strip(kept[i])]

\* row[col] for the row padded with "" to the length of the header
PaddedCell(raw_row, col) == IF col <= Len(raw_row) THEN CellText(raw_row[col]) ELSE <<>>

\* the SummaryRows of one body row
RowsOfBodyRow(raw_row, trait_col, genes_col, result_col, page_no) ==
    IF raw_row = <<>> THEN <<>>
    ELSE LET trait == PaddedCell(raw_row, trait_col)
             gs == PaddedCell(raw_row, genes_col)
             res == PaddedCell(raw_row, result_col)
         IN  IF trait = <<>> \/ gs = <<>> \/ res = <<>> THEN <<>>
             ELSE [i \in 1..Len(GeneList(gs)) |->
                      [trait |-> trait, gene |-> GeneList(gs)[i],
                       result |-> res, page |-> page_no]]

\* the SummaryRows of the page with zero-based index idx
RowsOfPage(doc, idx) ==
    IF idx >= Len(doc) THEN <<>>
    ELSE LET table == doc[idx + 1].table
         IN  IF table = <<>> THEN <<>>
             ELSE LET header == [i \in 1..Len(table[1]) |-> CellText(table[1][i])]
                      body == Tail(table)
                      trait_col == ListIndex(header, <<"T","r","a","i","t">>)
                      genes_col == ListIndex(header, <<"G","e","n","e","s">>)
                      result_col == ListIndex(header, <<"R","e","s","u","l","t">>)
                  IN  IF trait_col = 0 \/ genes_col = 0 \/ result_col = 0 THEN <<>>
                      ELSE Concat([r \in 1..Len(body) |->
                               RowsOfBodyRow(body[r], trait_col, genes_col, result_col, idx + 1)])

\* the scan of the configured pages ends at the first page that has no table
\* or lacks a column
parse_summary_tables_stop_at_bad_page(doc) ==
    LET Usable(idx) ==
            /\ doc[idx + 1].table # <<>>
            /\ \A c \in {<<"T","r","a","i","t">>, <<"G","e","n","e","s">>, <<"R","e","s","u","l","t">>} :
                  \E i \in 1..Len(doc[idx + 1].table[1]) : CellText(doc[idx + 1].table[1][i]) = c
        bad == {k \in 1..Len(SUMMARY_PAGE_INDEXES) :
                   SUMMARY_PAGE_INDEXES[k] < Len(doc) /\ ~Usable(SUMMARY_PAGE_INDEXES[k])}
        last == IF bad = {} THEN Len(SUMMARY_PAGE_INDEXES) ELSE MinOf(bad) - 1
    IN  Concat([k \in 1..last |-> RowsOfPage(doc, SUMMARY_PAGE_INDEXES[k])])

parse_summary_tables(doc) ==
    Concat([k \in 1..Len(SUMMARY_PAGE_INDEXES) |-> RowsOfPage(doc, SUMMARY_PAGE_INDEXES[k])])

\* get_gene_summary on the rows held: the first row of the gene, or None
first_summary_row(rows, gene) ==
    LET at == {i \in 1..Len(rows) : Upper(rows[i].gene) = Upper(gene)}
    IN  IF at = {} THEN Absent ELSE rows[MinOf(at)]

\* the GeneData of one tracked gene, as a list of none or one
observation_of(gene, pages) ==
    LET base == find_gene(gene, pages)
    IN  IF base = Absent THEN <<>>
        ELSE LET parsed_raw == parse_trait_result_from_context(gene, base.context)
                 cleaned_ == clean_trait_result(parsed_raw.trait, parsed_raw.result)
             IN  <<GeneData(base.name, base.page, base.context, cleaned_.trait, cleaned_.result)>>

\* a located gene whose result is absent is left out
observations_with_result(tracked, pages) ==
    LET all == Concat([k \in 1..Len(tracked) |-> observation_of(tracked[k], pages)])
        HasResult(g) == g.result # None
    IN  SelectSeq(all, HasResult)

\* the loop over the tracked genes
observations(tracked, pages) ==
    Concat([k \in 1..Len(tracked) |-> observation_of(tracked[k], pages)])

get_priority_genes_with_summary(pages) == observations(PRIORITY_GENES, pages)

-----------------------------------------------------------------------------
(* Specification SpecExtract: one report through load_pdf_text,
   parse_summary_tables, get_priority_genes_with_summary and apply_rules *)

MaxDocPages == 3

SummaryText ==
    <<"T","r","a","i","t"," ","G","e","n","e","s"," ","R","e","s","u","l","t","\n","V","i","t","a","m","i","n"," ","A"," ","R","e","q","u","i","r","e","m","e","n","t"," ","B","C","M","O","1"," ","@"," ","H","i","g","h"," ","r","i","s","k","\n","L","a","c","t","o","s","e"," ","I","n","t","o","l","e","r","a","n","c","e"," ","M","C","M","6"," ","@"," ","T","y","p","i","c","a","l">>

SummaryTable ==
    << <<<<" ","T","r","a","i","t"," ">>, <<"G","e","n","e","s">>, None, <<"R","e","s","u","l","t">>>>,
       <<<<"V","i","t","a","m","i","n"," ","A"," ","R","e","q","u","i","r","e","m","e","n","t">>, <<"B","C","M","O","1">>, <<>>, <<"H","i","g","h"," ","r","i","s","k">>>>,
       <<<<"L","a","c","t","o","s","e"," ","I","n","t","o","l","e","r","a","n","c","e">>, <<" ","m","c","m","6"," ",","," ","L","C","T",",">>, None, <<"T","y","p","i","c","a","l"," ">>>>,
       <<>>,
       <<<<"C","a","f","f","e","i","n","e">>, None, <<>>, <<"E","n","h","a","n","c","e","d">>>>,
       <<<<"W","e","i","g","h","t">>, <<"F","T","O">>>> >>

PageSummary == Page(SummaryText, SummaryTable)

\* a table whose header lacks the Genes column
PageWrongHeader ==
    Page(<<"C","a","f","f","e","i","n","e"," ","M","e","t","a","b","o","l","i","s","m"," ","C","Y","P","1","A","2"," ","@"," ","E","n","h","a","n","c","e","d">>,
         << <<<<"T","r","a","i","t">>, <<"R","e","s","u","l","t">>>>, <<<<"C","a","f","f","e","i","n","e"," ","M","e","t","a","b","o","l","i","s","m">>, <<"E","n","h","a","n","c","e","d">>>> >>)

\* symbols in running text, without the marker
PageNoMarker == Page(<<"s","e","e"," ","B","C","M","O","1"," ","a","n","d"," ","I","L","6"," ","H","i","g","h"," ","r","i","s","k">>, <<>>)

\* a table for a symbol the text does not hold
PageCover ==
    Page(<<"N","u","t","r","i","D","N","A"," ","r","e","p","o","r","t">>, << <<<<"T","r","a","i","t">>, <<"G","e","n","e","s">>, <<"R","e","s","u","l","t">>>>, <<<<"W","e","i","g","h","t">>, <<"f","t","o">>, <<"T","y","p","i","c","a","l">>>> >>)

PageBlank == Page(None, <<>>)

ExtractPages == {PageSummary, PageWrongHeader, PageNoMarker, PageCover, PageBlank}

InitExtract ==
    /\ pc = "start"
    /\ pdf \in SeqsUpTo(ExtractPages, MaxDocPages)
    /\ pages_text = <<>> /\ summary_rows = <<>>
    /\ rules_data = FullRules
    /\ genes = <<>> /\ advice_list = <<>>
    /\ RiskIdle /\ PlanIdle /\ LocateIdle /\ ContextIdle /\ RunIdle

\* extractor.parse_summary_tables()
ParseSummaryTables ==
    /\ pc \in {"start", "loaded"}
    /\ summary_rows' = parse_summary_tables(pdf)
    /\ UNCHANGED <<pc, pdf, pages_text, rulesVars, riskVars, plan, locateVars, contextVars, runVars>>

\* extractor.get_priority_genes_with_summary(), loading the text first when
\* none is loaded
GetPriorityGenesWithSummary ==
    /\ pc \in {"start", "loaded"}
    /\ IF pages_text = <<>> /\ pdf = <<>>
       THEN pc' = "ValueError" /\ UNCHANGED <<pages_text, genes>>
       ELSE /\ pages_text' = IF pages_text = <<>> THEN load_pdf_text(pdf) ELSE pages_text
            /\ genes' = get_priority_genes_with_summary(pages_text')
            /\ pc' = "genes"
    /\ UNCHANGED <<pdf, summary_rows, rules_data, advice_list, riskVars, plan, locateVars, contextVars, runVars>>

NextExtract == LoadPdfText \/ ParseSummaryTables \/ GetPriorityGenesWithSummary \/ ApplyRules

SpecExtract == InitExtract /\ [][NextExtract]_vars

\* the rows of the parsed tables whose gene is sym, letter case ignored
C7_RowsOf(sym) ==
    {i \in 1..Len(summary_rows) : Upper(summary_rows[i].gene) = Upper(sym)}

\* C7: whenever the parsed summary tables hold a row whose gene equals the
\* located gene's symbol (letter case ignored), the observation's trait and
\* result are that row's trait and result.
C7_TableBacked ==
    pc \in {"genes", "applied"} =>
        \A g \in 1..Len(genes) :
            first_summary_row(summary_rows, genes[g].name) # Absent =>
                \E i \in C7_RowsOf(genes[g].name) :
                    /\ genes[g].trait = summary_rows[i].trait
                    /\ genes[g].result = summary_rows[i].result

\* sym occurs as a whole word on some page of the loaded text
C9_Located(sym) ==
    \E p \in 1..Len(pages_text) : C10_Occurrences(pages_text[p], sym) # {}

\* the observations of sym in the sequence returned
C9_ObservationsOf(sym) == {g \in 1..Len(genes) : genes[g].name = sym}

\* neither pattern yields a result on the context of observation g
C9_NoResult(g) ==
    parse_trait_result_from_context(genes[g].name, genes[g].context).result = None

\* C9: every tracked gene located in the text has exactly one observation in
\* the sequence returned; when neither pattern yields a result on its context
\* the observation's result is absent, the step of apply_rules for it ends
\* with no record, and the records apply_rules returns hold none for that gene.
C9_KeptWithoutResult ==
    /\ pc \in {"genes", "applied"} =>
          \A k \in 1..Len(PRIORITY_GENES) :
              C9_Located(PRIORITY_GENES[k]) =>
                  /\ Cardinality(C9_ObservationsOf(PRIORITY_GENES[k])) = 1
                  /\ \A g \in C9_ObservationsOf(PRIORITY_GENES[k]) :
                        C9_NoResult(g) => genes[g].result = None
    /\ pc \in {"genes", "applied"} =>
          \A g \in 1..Len(genes) :
              C9_NoResult(g) => apply_rules_step(genes[g], rules_data) = <<>>
    /\ pc = "applied" =>
          \A g \in 1..Len(genes) :
              C9_NoResult(g) =>
                  \A a \in 1..Len(advice_list) : advice_list[a].gene # Upper(genes[g].name)

\* BCMO1 and IL6 are located on a page without the marker, next to a page
\* that gives MCM6 a result; the rules have been applied
C9_Witness ==
    /\ pc = "applied"
    /\ \E g \in 1..Len(genes) :
          /\ genes[g].name = <<"B","C","M","O","1">>
          /\ genes[g].context = <<"s","e","e"," ","B","C","M","O","1"," ","a","n","d"," ","I","L","6"," ","H","i","g","h"," ","r","i","s","k">>
          /\ genes[g].trait = <<"s","e","e">>
          /\ genes[g].result = None
    /\ \E g \in 1..Len(genes) : genes[g].name = <<"I","L","6">> /\ genes[g].result = None
    /\ \E g \in 1..Len(genes) : genes[g].name = <<"M","C","M","6">> /\ genes[g].result # None
    /\ \A a \in 1..Len(advice_list) : advice_list[a].gene \notin {<<"B","C","M","O","1">>, <<"I","L","6">>}

-----------------------------------------------------------------------------
(* PDFExtractor.find_priority_genes *)

\* the attributes an extractor has: those set by __init__ and the class's own
ExtractorAttrs ==
    {"pdf_path", "_pages_text", "_summary_rows", "PRIORITY_GENES"}

\* the symbols in PRIORITY_GENES order, each located by find_gene, as the loop
\* would return them
find_priority_genes_over_tracked(pages) ==
    LET Located(k) == IF find_gene(PRIORITY_GENES[k], pages) = Absent THEN <<>>
                      ELSE <<find_gene(PRIORITY_GENES[k], pages)>>
    IN  [raised |-> "", value |-> Concat([k \in 1..Len(PRIORITY_GENES) |-> Located(k)])]

\* the loop header reads self.PRIMARY_GENES: an AttributeError when the
\* extractor has no attribute of that name
find_priority_genes(pages) ==
    IF "PRIMARY_GENES" \notin ExtractorAttrs
    THEN [raised |-> "AttributeError", value |-> <<>>]
    ELSE find_priority_genes_over_tracked(pages)

-----------------------------------------------------------------------------
(* Specification SpecPriority: find_priority_genes on one report *)

InitPriority ==
    /\ pc = "start"
    /\ pdf \in SeqsUpTo(ExtractPages, MaxDocPages)
    /\ pages_text = <<>> /\ summary_rows = <<>>
    /\ RulesIdle /\ RiskIdle /\ PlanIdle /\ LocateIdle /\ ContextIdle /\ RunIdle

\* extractor.find_priority_genes(), loading the text first when none is loaded
FindPriorityGenes ==
    /\ pc \in {"start", "loaded"}
    /\ IF pages_text = <<>> /\ pdf = <<>>
       THEN pc' = "ValueError" /\ UNCHANGED <<pages_text, genes>>
       ELSE /\ pages_text' = IF pages_text = <<>> THEN load_pdf_text(pdf) ELSE pages_text
            /\ LET r == find_priority_genes(pages_text')
               IN  /\ pc' = IF r.raised = "" THEN "priority" ELSE r.raised
                   /\ genes' = r.value
    /\ UNCHANGED <<pdf, summary_rows, rules_data, advice_list, riskVars, plan, locateVars, contextVars, runVars>>

NextPriority == LoadPdfText \/ FindPriorityGenes

SpecPriority == InitPriority /\ [][NextPriority]_vars

\* C11: for any loaded page sequence find_priority_genes does not raise and
\* returns one observation for each tracked symbol found, in PRIORITY_GENES
\* order, skipping the symbols not found.
C11_TrackedOrder ==
    /\ pc # "AttributeError"
    /\ pc = "priority" =>
          LET hit == {k \in 1..Len(PRIORITY_GENES) : C9_Located(PRIORITY_GENES[k])}
          IN  /\ Len(genes) = Cardinality(hit)
              /\ \A g \in 1..Len(genes) :
                    \E k \in hit :
                        /\ genes[g].name = PRIORITY_GENES[k]
                        /\ Cardinality({j \in hit : j < k}) = g - 1

-----------------------------------------------------------------------------
(* Specification SpecTables: parse_summary_tables on one report *)

MaxTablePages == 5

\* columns in another order, a row whose result is blank
ReorderedTable ==
    << <<<<"R","e","s","u","l","t">>, <<"G","e","n","e","s">>, <<"T","r","a","i","t">>>>,
       <<<<"T","y","p","i","c","a","l">>, <<"F","T","O">>, <<"W","e","i","g","h","t">>>>,
       <<<<" ">>, <<"I","L","6">>, <<"I","n","f","l","a","m","m","a","t","i","o","n">>>>,
       <<<<"E","n","h","a","n","c","e","d">>, <<",","A","C","T","N","3",",",",","A","C","T","N","2"," ">>, <<" ","P","o","w","e","r"," ">>, <<"e","x","t","r","a">>>> >>

\* the header of scenario D
TraitResultTable == << <<<<"T","r","a","i","t">>, <<"R","e","s","u","l","t">>>>, <<<<"C","a","f","f","e","i","n","e"," ","M","e","t","a","b","o","l","i","s","m">>, <<"E","n","h","a","n","c","e","d">>>> >>

\* the column names in lower case
LowerCaseTable == << <<<<"t","r","a","i","t">>, <<"g","e","n","e","s">>, <<"r","e","s","u","l","t">>>>, <<<<"W","e","i","g","h","t">>, <<"F","T","O">>, <<"T","y","p","i","c","a","l">>>> >>

TableChoices == {<<>>, SummaryTable, ReorderedTable, TraitResultTable, LowerCaseTable}

TablePages == {Page(None, t) : t \in TableChoices}

InitTables ==
    /\ pc = "start"
    /\ pdf \in SeqsUpTo(TablePages, MaxTablePages)
    /\ pages_text = <<>> /\ summary_rows = <<>>
    /\ RulesIdle /\ RiskIdle /\ PlanIdle /\ LocateIdle /\ ContextIdle /\ RunIdle

\* rows = extractor.parse_summary_tables()
ParseTables ==
    /\ pc = "start"
    /\ summary_rows' = parse_summary_tables(pdf)
    /\ pc' = "tables"
    /\ UNCHANGED <<pdf, pages_text, rulesVars, riskVars, plan, locateVars, contextVars, runVars>>

NextTables == ParseTables

SpecTables == InitTables /\ [][NextTables]_vars

\* the table has no header row holding all of Trait, Genes and Result (cells
\* trimmed), or there is no table
C12_Unusable(table) ==
    \/ table = <<>>
    \/ \E c \in {<<"T","r","a","i","t">>, <<"G","e","n","e","s">>, <<"R","e","s","u","l","t">>} :
          \A i \in 1..Len(table[1]) : table[1][i] = None \/ Strip(table[1][i]) # c

\* the report with every table but that of page p removed
C12_Alone(doc, p) == [q \in 1..Len(doc) |-> IF q = p THEN doc[q] ELSE Page(None, <<>>)]

\* the rows of s that carry page number p
C12_RowsOfPage(s, p) == LET OnPage(r) == r.page = p IN SelectSeq(s, OnPage)

\* C12: a configured page without a table, or whose header lacks one of
\* Trait, Genes, Result, contributes no row and no error; every other
\* configured page contributes the rows it contributes when it is the only
\* page with a table.
C12_SkipsUnusablePages ==
    pc = "tables" =>
        \A k \in 1..Len(SUMMARY_PAGE_INDEXES) :
            LET p == SUMMARY_PAGE_INDEXES[k] + 1
            IN  p <= Len(pdf) =>
                    IF C12_Unusable(pdf[p].table)
                    THEN C12_RowsOfPage(summary_rows, p) = <<>>
                    ELSE C12_RowsOfPage(summary_rows, p) = parse_summary_tables(C12_Alone(pdf, p))

\* the header of scenario D on page 2, no table on page 3, and rows returned
\* from page 4
C12_Witness ==
    /\ pc = "tables"
    /\ Len(pdf) = 4
    /\ pdf[2].table = TraitResultTable
    /\ pdf[3].table = <<>>
    /\ pdf[4].table = SummaryTable
    /\ Len(summary_rows) = 3
    /\ \A r \in 1..Len(summary_rows) : summary_rows[r].page = 4

\* a cell trimmed, None read as the empty string
C13_Trim(c) == IF c = None THEN <<>> ELSE Strip(c)

\* the field of the body row under the first header column named name, the
\* row padded with empty cells to the header's length
C13_Field(row, header, name) ==
    LET c == CHOOSE i \in 1..Len(header) :
                 /\ C13_Trim(header[i]) = name
                 /\ \A j \in 1..(i - 1) : C13_Trim(header[j]) # name
    IN  IF c <= Len(row) THEN C13_Trim(row[c]) ELSE <<>>

\* the comma-separated tokens of s, trimmed, the empty ones dropped
C13_Tokens(s) ==
    LET starts == {0} \cup {i \in 1..Len(s) : s[i] = ","}
        EndOf(a) == MinOf({i \in (a + 1)..(Len(s) + 1) : i = Len(s) + 1 \/ s[i] = ","})
        Nth(k) == CHOOSE a \in starts : Cardinality({b \in starts : b < a}) = k - 1
        all == [k \in 1..Cardinality(starts) |-> Strip(SubSeq(s, Nth(k) + 1, EndOf(Nth(k)) - 1))]
        NonEmpty(t) == t # <<>>
    IN  SelectSeq(all, NonEmpty)

\* the rows one body row stands for
C13_RowsOfRow(row, header, p) ==
    LET trait == C13_Field(row, header, <<"T","r","a","i","t">>)
        gs == C13_Field(row, header, <<"G","e","n","e","s">>)
        res == C13_Field(row, header, <<"R","e","s","u","l","t">>)
    IN  IF row = <<>> \/ trait = <<>> \/ gs = <<>> \/ res = <<>> THEN <<>>
        ELSE [t \in 1..Len(C13_Tokens(gs)) |->
                 [trait |-> trait, gene |-> C13_Tokens(gs)[t], result |-> res, page |-> p]]

\* the rows page p (1-based) stands for
C13_RowsOfTable(doc, p) ==
    IF p > Len(doc) \/ C12_Unusable(doc[p].table) THEN <<>>
    ELSE Concat([r \in 1..(Len(doc[p].table) - 1) |->
                    C13_RowsOfRow(doc[p].table[r + 1], doc[p].table[1], p)])

\* C13: the sequence returned is, in the order of the configured pages 2..5,
\* then of the body rows, then of the comma-separated tokens, one row per
\* trimmed non-empty gene token of every body row whose trait, genes and
\* result are non-empty after trimming (short rows padded); every row has a
\* non-empty trait, gene and result and its 1-based page number.
C13_RowsExactly ==
    pc = "tables" =>
        /\ summary_rows = Concat([k \in 1..4 |-> C13_RowsOfTable(pdf, k + 1)])
        /\ \A r \in 1..Len(summary_rows) :
              /\ summary_rows[r].trait # <<>>
              /\ summary_rows[r].gene # <<>>
              /\ summary_rows[r].result # <<>>
              /\ summary_rows[r].page \in 2..5
              /\ summary_rows[r].page <= Len(pdf)

\* two tables with padded rows and several tokens in one cell, on pages 3 and
\* 2, behind a first page whose table is not read
C13_Witness ==
    /\ pc = "tables"
    /\ Len(pdf) = 3
    /\ pdf[1].table = SummaryTable
    /\ pdf[2].table = ReorderedTable
    /\ pdf[3].table = SummaryTable
    /\ Len(summary_rows) = 6
    /\ summary_rows[1] = [trait |-> <<"W","e","i","g","h","t">>, gene |-> <<"F","T","O">>, result |-> <<"T","y","p","i","c","a","l">>, page |-> 2]
    /\ summary_rows[2].gene = <<"A","C","T","N","3">> /\ summary_rows[3].gene = <<"A","C","T","N","2">>
    /\ summary_rows[3].trait = <<"P","o","w","e","r">>
    /\ summary_rows[5] = [trait |-> <<"L","a","c","t","o","s","e"," ","I","n","t","o","l","e","r","a","n","c","e">>, gene |-> <<"m","c","m","6">>, result |-> <<"T","y","p","i","c","a","l">>, page |-> 3]

-----------------------------------------------------------------------------
(* load_pdf_text and the pages that yield no text *)

\* C14: load_pdf_text ends with the empty-document error whenever no page
\* yields any text, also when the report has pages that all yield the empty
\* string; it succeeds only if some page yields text.
C14_EmptyDocumentError ==
    /\ pc = "loaded" => \E p \in 1..Len(pages_text) : pages_text[p] # <<>>
    /\ pc = "ValueError" => \A p \in 1..Len(pdf) : pdf[p].text \in {None, <<>>}


-----------------------------------------------------------------------------
(* The stage sequence  extract -> apply_rules -> generate_plan  as a caller *)
(* drives it, with the files it reads and the exceptions it lets out        *)

\* `v is None` for a value that may be an int (int and str never compare equal)
IsNone(v) == ToString(v) = ToString(None)

PdfPath == "report.pdf"
RulesPath == "data/rules.yml"

\* an exception instance: its class and str()
MkError(kind, message) == [kind |-> kind, message |-> message]

\* PDFExtractor.__init__: raise FileNotFoundError(f"PDF not found: {self.pdf_path}")
PdfNotFound == MkError("FileNotFoundError", "PDF not found: report.pdf")

\* load_pdf_text: raise ValueError("No text extracted from PDF. Check the file.")
NoTextExtracted == MkError("ValueError", "No text extracted from PDF. Check the file.")

\* RuleEngine.__init__: raise FileNotFoundError(f"Rules file not found: {self.rules_path}")
RulesNotFound == MkError("FileNotFoundError", "Rules file not found: data/rules.yml")

\* int(None)
IntOfNone ==
    MkError("TypeError",
            "int() argument must be a string, a bytes-like object or a real number, not 'NoneType'")

\* the content of a YAML file: no document (an empty file) or one document
EmptyYaml == <<>>
YamlDoc(v) == <<v>>

\* yaml.safe_load(f) or {}
safe_load_or_empty(content) == IF content = EmptyYaml THEN EmptyDict ELSE content[1]

\* a table of the documented shape whose optional fields are missing
Rules_optional_missing ==
    (<<"B","C","M","O","1">> :>
        [category |-> <<"n","u","t","r","i","t","i","o","n">>,
         mappings |-> (<<"H","i","g","h"," ","R","i","s","k">> :> [action |-> <<"i","n","c","r","e","a","s","e"," ","v","i","t","a","m","i","n"," ","A">>])])

\* ... are null, priority excepted (a null list reads like a missing one)
Rules_optional_null ==
    (<<"B","C","M","O","1">> :>
        [category |-> <<"n","u","t","r","i","t","i","o","n">>,
         mappings |->
            (<<"H","i","g","h"," ","R","i","s","k">> :>
                [action |-> <<"i","n","c","r","e","a","s","e"," ","v","i","t","a","m","i","n"," ","A">>,
                 foods |-> <<<<"l","i","v","e","r">>>>,
                 fitness_notes |-> None,
                 explanation |-> None])])

\* ... are null, priority included
Rules_priority_null ==
    (<<"B","C","M","O","1">> :>
        [category |-> <<"n","u","t","r","i","t","i","o","n">>,
         mappings |->
            (<<"H","i","g","h"," ","R","i","s","k">> :>
                [action |-> <<"i","n","c","r","e","a","s","e"," ","v","i","t","a","m","i","n"," ","A">>,
                 fitness_notes |-> None,
                 explanation |-> None,
                 priority |-> None])])

RulesFiles ==
    {EmptyYaml, YamlDoc(FullRules), YamlDoc(SparseRules), YamlDoc(Rules_optional_missing),
     YamlDoc(Rules_optional_null), YamlDoc(Rules_priority_null)}

\* the mapping the loop of apply_rules reaches for g (empty when it `continue`s)
mapping_of(g, rules) ==
    LET rule_entry == DictGet(rules, GeneNameOf(g), EmptyDict)
        r_key == normalize_risk(RiskLevelOf(g))
    IN  IF ~DictTruthy(rule_entry) \/ ~Truthy(r_key) THEN EmptyDict
        ELSE DictGet(DictGet(rule_entry, "mappings", EmptyDict), r_key, EmptyDict)

\* int(mapping.get("priority", 0)) raises TypeError
int_raises(mapping) == "priority" \in DOMAIN mapping /\ IsNone(mapping["priority"])

\* apply_rules leaves by an exception
apply_rules_raises(gs, rules) ==
    \E i \in 1..Len(gs) : int_raises(mapping_of(gs[i], rules))

MaxStagePages == 2

StageDocs == SeqsUpTo(ExtractPages, MaxStagePages)

\* a file system with or without the report and with or without rules.yml
Disks ==
    {pdf_file @@ rules_file :
        pdf_file \in {<<>>} \cup {PdfPath :> d : d \in StageDocs},
        rules_file \in {<<>>} \cup {RulesPath :> r : r \in RulesFiles}}

InitStages ==
    /\ pc = "start"
    /\ disk \in Disks
    /\ raised = NoError /\ plan_dict = Absent /\ menu = Absent
    /\ report = None /\ session = <<>> /\ uploaded_file = None /\ args = <<>> /\ meals = <<>>
    /\ previous = <<>>
    /\ RiskIdle /\ RulesIdle /\ PlanIdle /\ DocIdle /\ LocateIdle /\ ContextIdle

\* extractor = PDFExtractor(pdf_path)
NewPDFExtractor ==
    /\ pc = "start"
    /\ IF PdfPath \in DOMAIN disk
       THEN pc' = "extractor" /\ UNCHANGED raised
       ELSE pc' = "raised" /\ raised' = PdfNotFound
    /\ UNCHANGED <<disk, plan_dict, menu, report, session, uploaded_file, args, meals, previous, riskVars, rulesVars, plan,
                   docVars, locateVars, contextVars>>

\* extractor.load_pdf_text()
StageLoadPdfText ==
    /\ pc = "extractor"
    /\ pdf' = disk[PdfPath]
    /\ IF pdf' = <<>>
       THEN pc' = "raised" /\ raised' = NoTextExtracted /\ UNCHANGED pages_text
       ELSE pc' = "loaded" /\ pages_text' = load_pdf_text(pdf') /\ UNCHANGED raised
    /\ UNCHANGED <<disk, plan_dict, menu, report, session, uploaded_file, args, meals, previous, summary_rows, riskVars,
                   rulesVars, plan, locateVars, contextVars>>

\* genes = extractor.get_priority_genes_with_summary()
StageGetGenes ==
    /\ pc = "loaded"
    /\ genes' = get_priority_genes_with_summary(pages_text)
    /\ pc' = "genes"
    /\ UNCHANGED <<rules_data, advice_list, runVars, riskVars, plan, docVars,
                   locateVars, contextVars>>

\* engine = RuleEngine("data/rules.yml")
NewRuleEngine ==
    /\ pc = "genes"
    /\ IF RulesPath \in DOMAIN disk
       THEN /\ rules_data' = safe_load_or_empty(disk[RulesPath])
            /\ pc' = "engine" /\ UNCHANGED raised
       ELSE pc' = "raised" /\ raised' = RulesNotFound /\ UNCHANGED rules_data
    /\ UNCHANGED <<disk, plan_dict, menu, report, session, uploaded_file, args, meals, previous, genes, advice_list, riskVars,
                   plan, docVars, locateVars, contextVars>>

\* advice_list = engine.apply_rules(genes)
StageApplyRules ==
    /\ pc = "engine"
    /\ IF apply_rules_raises(genes, rules_data)
       THEN pc' = "raised" /\ raised' = IntOfNone /\ UNCHANGED advice_list
       ELSE pc' = "applied" /\ advice_list' = apply_rules(genes, rules_data)
            /\ UNCHANGED raised
    /\ UNCHANGED <<disk, plan_dict, menu, report, session, uploaded_file, args, meals, previous, rules_data, genes, riskVars,
                   plan, docVars, locateVars, contextVars>>

\* plan = PlanGenerator().generate_plan(advice_list)
StageGeneratePlan ==
    /\ pc = "applied"
    /\ plan' = generate_plan(advice_list)
    /\ pc' = "planned"
    /\ UNCHANGED <<rulesVars, runVars, riskVars, docVars, locateVars, contextVars>>

NextStages ==
    \/ NewPDFExtractor \/ StageLoadPdfText \/ StageGetGenes
    \/ NewRuleEngine \/ StageApplyRules \/ StageGeneratePlan

SpecStages == InitStages /\ [][NextStages]_vars

\* which of the three fatal conditions holds for the run
Fatal_DocumentMissing == PdfPath \notin DOMAIN disk
Fatal_NoText == PdfPath \in DOMAIN disk /\ disk[PdfPath] = <<>>
Fatal_RulesMissing ==
    /\ PdfPath \in DOMAIN disk /\ disk[PdfPath] # <<>>
    /\ RulesPath \notin DOMAIN disk

\* C15: the three fatal conditions (document path does not exist; document
\* yields no text; rule table file missing) surface as error kinds distinct
\* from one another: the kind of the exception raised for one of them is never
\* the kind raised for another, so the kind alone tells which one occurred.
C15_DistinctKinds ==
    pc = "raised" =>
        /\ raised.kind = PdfNotFound.kind => Fatal_DocumentMissing
        /\ raised.kind = NoTextExtracted.kind => Fatal_NoText
        /\ raised.kind = RulesNotFound.kind => Fatal_RulesMissing

\* the document exists and some page of it yields text
YieldsText ==
    /\ PdfPath \in DOMAIN disk
    /\ \E p \in 1..Len(disk[PdfPath]) : Truthy(disk[PdfPath][p].text)

\* C16: for every document that exists and yields text and every rule table
\* of the documented shape, optional fields missing or null included, the
\* stages extract, apply_rules and generate_plan run through to a plan and
\* none of them raises; a run fails only under one of the three fatal
\* conditions.
C16_AlwaysAPlan ==
    /\ YieldsText /\ RulesPath \in DOMAIN disk => pc # "raised"
    /\ pc = "raised" => Fatal_DocumentMissing \/ Fatal_NoText \/ Fatal_RulesMissing
    /\ pc = "planned" => plan # Absent

-----------------------------------------------------------------------------
(* MealGenerator: the daily menu looked up for the genes of a plan dict *)

\* the slots of the menu, in the order the dict is built
MenuSlots == <<"breakfast", "lunch", "dinner", "snacks">>

\* one (meal_time, foods) item of a gene's group, as .items() yields it
MealTime(meal_time, foods) == [meal_time |-> meal_time, foods |-> foods]

\* the genes collected from the nutrition items: the elements of the set
\* _extract_genes_from_plan builds
extract_genes_from_plan(pd) ==
    IF pd = Absent \/ "nutrition" \notin DOMAIN pd THEN {}
    ELSE UNION {
            (IF "gene" \in DOMAIN item /\ Truthy(item["gene"])
                 THEN {Upper(item["gene"])} ELSE {})
            \cup
            (IF "related_genes" \in DOMAIN item
                 THEN {Upper(item["related_genes"][g]) :
                          g \in 1..Len(item["related_genes"])}
                 ELSE {})
            : item \in {pd["nutrition"][i] : i \in 1..Len(pd["nutrition"])}}

\* list(genes): the elements of the set in an order the set chooses
Orderings(S) ==
    {s \in [1..Cardinality(S) -> S] : \A i, j \in 1..Cardinality(S) : i # j => s[i] # s[j]}

\* the (meal_time, foods) items the loops visit for the genes, in visiting order
meal_entries(genes_found, table) ==
    Concat([g \in 1..Len(genes_found) |->
        IF genes_found[g] \notin DOMAIN table THEN <<>>
        ELSE LET gene_meals == table[genes_found[g]]
             IN  Concat([k \in 1..Len(gene_meals) |-> gene_meals[k]])])

\* the body of the innermost loop
extend_menu(m, entry) ==
    IF ~Truthy(entry.foods) THEN m
    ELSE IF entry.meal_time = "all_meals"
         THEN [key \in DOMAIN m |-> m[key] \o entry.foods]
    ELSE IF entry.meal_time \in DOMAIN m
         THEN [m EXCEPT ![entry.meal_time] = @ \o entry.foods]
    ELSE m

RECURSIVE accumulate_menu(_, _)
accumulate_menu(m, entries) ==
    IF entries = <<>> THEN m
    ELSE accumulate_menu(extend_menu(m, Head(entries)), Tail(entries))

EmptyMenu == [key \in {MenuSlots[i] : i \in 1..Len(MenuSlots)} |-> <<>>]

\* the generic menu used when no slot received a food
FallbackMenu ==
    [breakfast |-> <<<<"B","a","l","a","n","c","e","d"," ","b","r","e","a","k","f","a","s","t"," ","w","i","t","h"," ","p","r","o","t","e","i","n",","," ","w","h","o","l","e"," ","g","r","a","i","n","s",","," ","a","n","d"," ","f","r","u","i","t">>>>,
     lunch |-> <<<<"L","e","a","n"," ","p","r","o","t","e","i","n"," ","w","i","t","h"," ","v","e","g","e","t","a","b","l","e","s"," ","a","n","d"," ","c","o","m","p","l","e","x"," ","c","a","r","b","s">>>>,
     dinner |-> <<<<"L","i","g","h","t"," ","d","i","n","n","e","r",","," ","a","v","o","i","d"," ","h","e","a","v","y"," ","l","a","t","e","-","n","i","g","h","t"," ","m","e","a","l","s">>>>,
     snacks |-> <<<<"N","u","t","s",","," ","f","r","u","i","t","s",","," ","o","r"," ","y","o","g","u","r","t">>>>]

\* the menu before duplicates are removed
menu_with_duplicates(genes_found, table) ==
    LET m == accumulate_menu(EmptyMenu, meal_entries(genes_found, table))
    IN  IF \A key \in DOMAIN m : m[key] = <<>> THEN FallbackMenu ELSE m

RECURSIVE unique_loop(_, _)
\* the loop over menu[key]: a food not yet seen is appended to `unique`
unique_loop(foods, kept) ==
    IF foods = <<>> THEN kept
    ELSE unique_loop(Tail(foods),
                     IF \E i \in 1..Len(kept) : kept[i] = Head(foods)
                     THEN kept ELSE Append(kept, Head(foods)))

unique_keep_last(foods) ==
    LET idx == {i \in 1..Len(foods) : \A j \in (i + 1)..Len(foods) : foods[j] # foods[i]}
    IN  [k \in 1..Cardinality(idx) |->
            foods[CHOOSE i \in idx : Cardinality({j \in idx : j < i}) = k - 1]]

\* `unique` as the loop leaves it
unique(foods) == unique_loop(foods, <<>>)

\* generate_daily_plan, for the order genes_found in which list(genes) came out
generate_daily_plan(genes_found, table) ==
    LET m == menu_with_duplicates(genes_found, table)
    IN  [key \in DOMAIN m |-> unique(m[key])]

\* meals.yml: gene -> groups, each a list of (meal_time, foods) items
MealsTable ==
    (<<"B","C","M","O","1">> :>
        << <<MealTime("breakfast", <<<<"e","g","g","s">>, <<"c","a","r","r","o","t","s">>, <<"e","g","g","s">>>>),
             MealTime("lunch", <<<<"c","a","r","r","o","t","s">>, <<"l","i","v","e","r">>>>),
             MealTime("all_meals", <<<<"w","a","t","e","r">>>>)>> >>)
    @@
    (<<"M","C","M","6">> :>
        << <<MealTime("breakfast", <<<<"o","a","t","s">>, <<"e","g","g","s">>>>),
             MealTime("snacks", <<>>),
             MealTime("post_workout", <<<<"s","h","a","k","e">>>>)>>,
           <<MealTime("lunch", <<<<"l","i","v","e","r">>, <<"t","o","f","u">>>>),
             MealTime("dinner", None)>> >>)
    @@
    (<<"F","T","O">> :>
        << <<MealTime("all_meals", <<<<"e","g","g","s">>, <<"w","a","t","e","r">>>>),
             MealTime("dinner", <<<<"s","o","u","p">>>>)>> >>)

\* a table whose only foods are for a slot the menu does not have
MealsOffMenu ==
    (<<"B","C","M","O","1">> :> << <<MealTime("post_workout", <<<<"s","h","a","k","e">>>>)>> >>)

MealsTables == {MealsTable, MealsOffMenu, EmptyDict}

\* a nutrition item as plan_to_dict gives it
NutritionDict(related) ==
    [title |-> <<"t">>, description |-> <<"d">>, foods_to_focus |-> <<<<"f">>>>,
     foods_to_limit |-> <<>>, related_genes |-> related, priority |-> 5]

MealPlanItems ==
    {NutritionDict(<<<<"B","C","M","O","1">>>>), NutritionDict(<<<<"m","c","m","6">>, <<"F","T","O">>>>),
     NutritionDict(<<<<"F","T","O">>>>), NutritionDict(<<<<"A","C","T","N","3">>>>), NutritionDict(<<>>),
     [gene |-> <<"M","c","m","6">>, title |-> <<"t">>]}

MaxMealItems == 2

PlanDictOf(items) ==
    [nutrition |-> items, fitness |-> <<>>, supplements |-> <<>>, lifestyle |-> <<>>]

InitMeals ==
    /\ pc = "start"
    /\ meals \in MealsTables
    /\ plan_dict \in {PlanDictOf(items) : items \in SeqsUpTo(MealPlanItems, MaxMealItems)}
                     \cup {[fitness |-> <<>>]}
    /\ menu = Absent
    /\ disk = <<>> /\ raised = NoError /\ report = None /\ session = <<>> /\ uploaded_file = None /\ args = <<>>
    /\ previous = <<>>
    /\ RiskIdle /\ RulesIdle /\ PlanIdle /\ DocIdle /\ LocateIdle /\ ContextIdle

\* menu = meal_gen.generate_daily_plan(plan_dict)
GenerateDailyPlan ==
    /\ pc = "start"
    /\ \E genes_found \in Orderings(extract_genes_from_plan(plan_dict)) :
           menu' = generate_daily_plan(genes_found, meals)
    /\ pc' = "menu"
    /\ UNCHANGED <<disk, raised, plan_dict, report, session, uploaded_file, args, meals, previous, riskVars,
                   rulesVars, plan, docVars, locateVars, contextVars>>

NextMeals == GenerateDailyPlan

SpecMeals == InitMeals /\ [][NextMeals]_vars

\* the position at which food is first met in foods
C20_FirstAt(foods, food) ==
    CHOOSE i \in 1..Len(foods) : foods[i] = food /\ \A j \in 1..(i - 1) : foods[j] # food

\* out is foods without its duplicates, each food where it occurs first
C20_FirstSeen(out, foods) ==
    /\ \A i, j \in 1..Len(out) : i # j => out[i] # out[j]
    /\ {out[i] : i \in 1..Len(out)} = {foods[i] : i \in 1..Len(foods)}
    /\ \A i, j \in 1..Len(out) :
          i < j => C20_FirstAt(foods, out[i]) < C20_FirstAt(foods, out[j])

\* C20: in the menu generate_daily_plan returns, no slot holds a food twice,
\* and each slot lists its foods in the order in which they first occur among
\* the foods accumulated for that slot.
C20_DedupFirstSeen ==
    pc = "menu" =>
        \E genes_found \in Orderings(extract_genes_from_plan(plan_dict)) :
            \A s \in 1..Len(MenuSlots) :
                C20_FirstSeen(menu[MenuSlots[s]],
                              menu_with_duplicates(genes_found, meals)[MenuSlots[s]])

\* a slot whose accumulated foods held the same food more than once, from
\* one gene and from two, has been reduced
C20_Witness ==
    /\ pc = "menu"
    /\ meals = MealsTable
    /\ menu.breakfast = <<<<"e","g","g","s">>, <<"c","a","r","r","o","t","s">>, <<"w","a","t","e","r">>, <<"o","a","t","s">>>>
    /\ menu.dinner = <<<<"w","a","t","e","r">>, <<"e","g","g","s">>, <<"s","o","u","p">>>>

\* C28: generate_daily_plan is deterministic: the menu for a plan dict and a
\* meals table is the same whatever the order in which the collected gene
\* names are iterated, slot by slot the same foods in the same order.
C28_OrderIndependent ==
    pc = "menu" =>
        \A genes_found \in Orderings(extract_genes_from_plan(plan_dict)) :
            menu = generate_daily_plan(genes_found, meals)

-----------------------------------------------------------------------------
(* The CLI run: main() of src/main.py *)

\* vars(item): the dict of the item's attributes
vars_of(item) == [k \in DOMAIN item |-> item[k]]

plan_to_dict_without_lifestyle(p) ==
    [nutrition |-> [i \in 1..Len(p.nutrition) |-> vars_of(p.nutrition[i])],
     fitness |-> [i \in 1..Len(p.fitness) |-> vars_of(p.fitness[i])],
     supplements |-> [i \in 1..Len(p.supplements) |-> vars_of(p.supplements[i])],
     lifestyle |-> <<>>]

\* plan_to_dict(plan): the four sections, each item by its attributes
plan_to_dict(p) ==
    [nutrition |-> [i \in 1..Len(p.nutrition) |-> vars_of(p.nutrition[i])],
     fitness |-> [i \in 1..Len(p.fitness) |-> vars_of(p.fitness[i])],
     supplements |-> [i \in 1..Len(p.supplements) |-> vars_of(p.supplements[i])],
     lifestyle |-> [i \in 1..Len(p.lifestyle) |-> vars_of(p.lifestyle[i])]]

MealsPath == "data/meals.yml"
MenuPath == "nutricoach_menu.md"
OutputPath == "nutricoach_plan.json"

\* sys.exit(1)
SystemExit1 == MkError("SystemExit", "1")

\* MealGenerator.__init__: raise FileNotFoundError(f"Meals file not found: {path}")
MealsNotFound == MkError("FileNotFoundError", "Meals file not found: data/meals.yml")

\* the text json.dump(plan_dict, f, indent=2, ensure_ascii=False) writes,
\* kept as the value it encodes
JsonText(d) == [json |-> d]

\* str.title() of a slot name
Title(key) ==
    CASE key = "breakfast" -> <<"B","r","e","a","k","f","a","s","t">>
      [] key = "lunch" -> <<"L","u","n","c","h">>
      [] key = "dinner" -> <<"D","i","n","n","e","r">>
      [] key = "snacks" -> <<"S","n","a","c","k","s">>

\* the lines written to nutricoach_menu.md (the emoji of the heading left out)
menu_markdown(m) ==
    <<<<"#"," ","Y","o","u","r"," ","D","N","A","-","O","p","t","i","m","i","z","e","d"," ","M","e","a","l"," ","P","l","a","n">>, <<>>>> \o
    Concat([s \in 1..Len(MenuSlots) |->
        <<<<"#","#"," ">> \o Title(MenuSlots[s]), <<>>>> \o
        [f \in 1..Len(m[MenuSlots[s]]) |-> <<"-"," ">> \o m[MenuSlots[s]][f]] \o
        << <<>> >>])

\* file name :> content, written to the disk d
WriteFile(d, name, content) ==
    [n \in DOMAIN d \cup {name} |-> IF n = name THEN content ELSE d[n]]

MaxCliPages == 1

MealsFiles == {EmptyYaml, YamlDoc(MealsTable)}

CliDisks ==
    {pdf_file @@ rules_file @@ meals_file :
        pdf_file \in {<<>>} \cup {PdfPath :> d : d \in SeqsUpTo(ExtractPages, MaxCliPages)},
        rules_file \in {<<>>} \cup {RulesPath :> r : r \in RulesFiles},
        meals_file \in {<<>>} \cup {MealsPath :> t : t \in MealsFiles}}

InitCli ==
    /\ pc = "cli"
    /\ disk \in CliDisks
    /\ args \in [pdf_path : {PdfPath}, output : {OutputPath},
                 meals : BOOLEAN, explain : BOOLEAN]
    /\ raised = NoError /\ plan_dict = Absent /\ menu = Absent
    /\ report = None /\ session = <<>> /\ uploaded_file = None /\ meals = <<>>
    /\ previous = <<>>
    /\ RiskIdle /\ RulesIdle /\ PlanIdle /\ DocIdle /\ LocateIdle /\ ContextIdle

\* main, lines 36-39: the path is checked before any stage runs
CliCheckPath ==
    /\ pc = "cli"
    /\ IF args.pdf_path \in DOMAIN disk
       THEN pc' = "start" /\ UNCHANGED raised
       ELSE pc' = "raised" /\ raised' = SystemExit1
    /\ UNCHANGED <<disk, plan_dict, menu, report, session, uploaded_file, args, meals, previous, riskVars,
                   rulesVars, plan, docVars, locateVars, contextVars>>

\* main, lines 62-67: plan_to_dict and json.dump to args.output
CliSavePlan ==
    /\ pc = "planned"
    /\ plan_dict' = plan_to_dict(plan)
    /\ disk' = WriteFile(disk, args.output, JsonText(plan_dict'))
    /\ pc' = "saved"
    /\ UNCHANGED <<raised, menu, report, session, uploaded_file, args, meals, previous, riskVars, rulesVars,
                   plan, docVars, locateVars, contextVars>>

\* main, lines 70-83: with --meals, the menu is generated and written; the
\* block is not inside a try, so MealGenerator()'s exception leaves main
CliMeals ==
    /\ pc = "saved"
    /\ IF ~args.meals
       THEN pc' = "meals_done" /\ UNCHANGED <<raised, meals, menu, disk>>
       ELSE IF MealsPath \notin DOMAIN disk
       THEN pc' = "raised" /\ raised' = MealsNotFound /\ UNCHANGED <<meals, menu, disk>>
       ELSE /\ meals' = safe_load_or_empty(disk[MealsPath])
            /\ \E genes_found \in Orderings(extract_genes_from_plan(plan_dict)) :
                   menu' = generate_daily_plan(genes_found, meals')
            /\ disk' = WriteFile(disk, MenuPath, menu_markdown(menu'))
            /\ pc' = "meals_done" /\ UNCHANGED raised
    /\ UNCHANGED <<plan_dict, report, session, uploaded_file, args, previous, riskVars, rulesVars, plan,
                   docVars, locateVars, contextVars>>

\* main, lines 86-94: with --explain, `from src.ai.gemini_client import
\* generate_report` raises ImportError (the module defines only the class
\* NutriCoachGeminiClient), which the except clause reports; no report is
\* written with or without the flag
CliExplain ==
    /\ pc = "meals_done"
    /\ pc' = "done"
    /\ UNCHANGED <<runVars, riskVars, rulesVars, plan, docVars, locateVars, contextVars>>

NextCli ==
    \/ CliCheckPath \/ NextStages \/ CliSavePlan \/ CliMeals \/ CliExplain

SpecCli == InitCli /\ [][NextCli]_vars

\* C17: a failure of the meal lookup or of the narrative generation stays
\* inside that collaborator's call: once the plan is computed and saved no
\* exception leaves the run (a failed meal lookup does not abort it, so the
\* narrative stage is still attempted), and the plan and its serialized form
\* stay as they were computed and stay available.
C17_CollaboratorFailureIsolated ==
    /\ pc = "raised" => plan_dict = Absent
    /\ plan_dict # Absent =>
          /\ plan_dict = plan_to_dict(plan)
          /\ args.output \in DOMAIN disk
          /\ disk[args.output] = JsonText(plan_to_dict(plan))

-----------------------------------------------------------------------------
(* Specification SpecSerialize: a generated plan turned into its dict form *)

\* dataclasses.asdict on an item: a dict of its fields
asdict_item(item) == [k \in DOMAIN item |-> item[k]]

\* ComprehensiveHealthPlan.to_dict(): asdict(self), the summary included
to_dict(p) ==
    [nutrition |-> [i \in 1..Len(p.nutrition) |-> asdict_item(p.nutrition[i])],
     fitness |-> [i \in 1..Len(p.fitness) |-> asdict_item(p.fitness[i])],
     supplements |-> [i \in 1..Len(p.supplements) |-> asdict_item(p.supplements[i])],
     lifestyle |-> [i \in 1..Len(p.lifestyle) |-> asdict_item(p.lifestyle[i])],
     summary |-> p.summary]

InitSerialize ==
    /\ pc = "start"
    /\ advice_list \in SeqsUpTo(AdviceChoices, MaxAdvice)
    /\ rules_data = <<>> /\ genes = <<>>
    /\ plan = Absent
    /\ RiskIdle /\ DocIdle /\ LocateIdle /\ ContextIdle /\ RunIdle

\* plan_dict = plan_to_dict(plan)
PlanToDict ==
    /\ pc = "planned"
    /\ plan_dict' = plan_to_dict(plan)
    /\ pc' = "plan_to_dict"
    /\ UNCHANGED <<disk, raised, menu, report, session, uploaded_file, args, meals, previous, riskVars,
                   rulesVars, plan, docVars, locateVars, contextVars>>

\* plan.to_dict()
ToDict ==
    /\ pc = "planned"
    /\ plan_dict' = to_dict(plan)
    /\ pc' = "to_dict"
    /\ UNCHANGED <<disk, raised, menu, report, session, uploaded_file, args, meals, previous, riskVars,
                   rulesVars, plan, docVars, locateVars, contextVars>>

NextSerialize == GeneratePlan \/ PlanToDict \/ ToDict

SpecSerialize == InitSerialize /\ [][NextSerialize]_vars

PlanSections == {"nutrition", "fitness", "supplements", "lifestyle"}

-----------------------------------------------------------------------------
(* Specification SpecRepeat: apply_rules called twice on one engine *)

rules_data_without_looked_up(rules, gs) ==
    [sym \in DOMAIN rules \ {GeneNameOf(gs[i]) : i \in 1..Len(gs)} |-> rules[sym]]

\* self.rules_data after apply_rules(gs): the table is read with .get only
\* and the records are built from the values read, so it is as it was
rules_data_after_apply_rules(rules, gs) == rules

\* the symbol of every observation upper-cased in place
genes_upper_cased(gs) ==
    [i \in 1..Len(gs) |->
        IF IsDict(gs[i]) THEN [gs[i] EXCEPT !.gene = Upper(@)]
        ELSE [gs[i] EXCEPT !.name = Upper(@)]]

\* the observations after apply_rules(gs): the loop reads g["gene"] and
\* g["risk"], or g.name and g.result, and assigns to none of them
genes_after_apply_rules(gs) == gs

MaxRepeatGenes == 2

InitRepeat ==
    /\ pc = "engine"
    /\ rules_data \in RuleTables
    /\ genes \in SeqsUpTo(ObsChoices, MaxRepeatGenes)
    /\ advice_list = <<>>
    /\ RiskIdle /\ PlanIdle /\ DocIdle /\ LocateIdle /\ ContextIdle /\ RunIdle

\* engine.apply_rules(genes), a first and a second time on the same engine
\* and the same list of observations
CallApplyRules ==
    /\ pc \in {"engine", "called_once"}
    /\ previous' = advice_list
    /\ advice_list' = apply_rules(genes, rules_data)
    /\ rules_data' = rules_data_after_apply_rules(rules_data, genes)
    /\ pc' = IF pc = "engine" THEN "called_once" ELSE "called_twice"
    /\ genes' = genes_after_apply_rules(genes)
    /\ UNCHANGED <<disk, raised, plan_dict, menu, report, session, uploaded_file, args, meals,
                   riskVars, plan, docVars, locateVars, contextVars>>

NextRepeat == CallApplyRules

SpecRepeat == InitRepeat /\ [][NextRepeat]_vars

-----------------------------------------------------------------------------
(* Observations as dicts and as GeneData objects (SpecRules) *)

\* the (gene, risk) pairs of a list of observations in the one and in the
\* other representation
C21_AsDicts(gs) ==
    [i \in 1..Len(gs) |->
        IF IsDict(gs[i]) THEN gs[i] ELSE ObsDict(gs[i].name, gs[i].result)]

C21_AsGeneData(gs) ==
    [i \in 1..Len(gs) |->
        IF IsDict(gs[i]) THEN GeneData(gs[i].gene, 1, <<>>, None, gs[i].risk)
        ELSE gs[i]]

\* C21: apply_rules treats an observation given as a dict with the keys
\* 'gene' and 'risk' like a GeneData object of the same name and result: the
\* output for a sequence of pairs is the same whether each pair is a dict or
\* an object, and every pair with a mapping in the rule table contributes a
\* record whose gene is the upper-cased symbol.
C21_DictLikeGeneData ==
    pc = "applied" =>
        /\ advice_list = apply_rules(C21_AsDicts(genes), rules_data)
        /\ advice_list = apply_rules(C21_AsGeneData(genes), rules_data)
        /\ \A i \in 1..Len(genes) :
              C2_Matches(genes[i]) =>
                  \E a \in 1..Len(advice_list) :
                      advice_list[a].gene = Upper(C21_AsDicts(genes)[i].gene)
        /\ \A a \in 1..Len(advice_list) : advice_list[a].gene = Upper(advice_list[a].gene)

\* a dict in lower case and an object, both with a mapping, have been applied
C21_Witness ==
    /\ pc = "applied"
    /\ Len(advice_list) = 2
    /\ \E i \in 1..Len(genes) : IsDict(genes[i]) /\ genes[i].gene = <<"b","c","m","o","1">>
    /\ \E i \in 1..Len(genes) : ~IsDict(genes[i]) /\ genes[i].name = <<"M","C","M","6">>

-----------------------------------------------------------------------------
(* The context window of find_gene (SpecLocate) *)

\* ctx is the slice of text that starts after offset characters, with each
\* newline read as a space
C22_SliceAt(ctx, text, offset) ==
    /\ offset >= 0 /\ offset + Len(ctx) <= Len(text)
    /\ \A k \in 1..Len(ctx) :
          ctx[k] = IF text[offset + k] = "\n" THEN " " ELSE text[offset + k]

\* C22: the context of the observation find_gene returns is the slice of the
\* matched page from 250 characters before the match (or the start of the
\* page) to 250 characters after it (or the end of the page), newlines
\* replaced by spaces: it contains the matched symbol, lies within the page
\* text, holds no newline and is at most 500 characters plus the symbol long.
C22_ContextWindow ==
    pc = "found" /\ found # Absent =>
        LET text == pages_text[found.page]
            ctx == found.context
            n == Len(gene_name)
        IN  /\ Len(ctx) <= 2 * CONTEXT_RADIUS + n
            /\ \A k \in 1..Len(ctx) : ctx[k] # "\n"
            /\ \E k \in 1..Len(ctx) : Lower(SubSeq(ctx, k, k + n - 1)) = Lower(gene_name)
            /\ \E offset \in 0..(Len(text) - Len(ctx)) :
                  /\ C22_SliceAt(ctx, text, offset)
                  /\ \E i \in C10_Occurrences(text, gene_name) :
                        /\ offset = (IF i - 1 - CONTEXT_RADIUS > 0
                                     THEN i - 1 - CONTEXT_RADIUS ELSE 0)
                        /\ offset + Len(ctx) =
                              (IF i - 1 + n + CONTEXT_RADIUS < Len(text)
                               THEN i - 1 + n + CONTEXT_RADIUS ELSE Len(text))

\* a window of full width on both sides of the symbol, cut from a page with a
\* newline inside the window
C22_Witness ==
    /\ pc = "found" /\ found # Absent
    /\ Len(found.context) = 2 * CONTEXT_RADIUS + Len(gene_name)
    /\ Len(found.context) < Len(pages_text[found.page])
    /\ found.context # SubSeq(pages_text[found.page],
                              match_start(pages_text[found.page], gene_name) - CONTEXT_RADIUS,
                              match_start(pages_text[found.page], gene_name)
                                  + Len(gene_name) - 1 + CONTEXT_RADIUS)

-----------------------------------------------------------------------------
(* Specification SpecClean: _clean_trait_result on one trait and one result *)

MaxCleanFrags == 3

CleanFrags ==
    {HeaderPrefix, <<" ">>, <<"T","y","p","i","c","a","l"," ">>, <<"H","i","g","h"," ","r","i","s","k"," ">>, <<"V","i","t","a","m","i","n"," ","A">>, <<" ","B","1","2"," ","R","e","q","u","i","r","e","m","e","n","t"," ","o","n","e">>}

CleanTraits == {None} \cup {Concat(fs) : fs \in SeqsUpTo(CleanFrags, MaxCleanFrags)}

CleanResults ==
    {None, <<>>, <<" "," ">>, <<"H","i","g","h"," ","r","i","s","k">>, <<"H","i","g","h"," ","r","i","s","k"," ","V","i","t","a","m","i","n"," ","B","1","2"," ","R","e","q","u","i","r","e","m","e","n","t">>,
     <<" ","S","l","i","g","h","t","l","y"," ","E","n","h","a","n","c","e","d","\n","x"," ">>, <<"a"," ","b"," ","c">>}

InitClean ==
    /\ pc = "parsed"
    /\ parsed \in [trait : CleanTraits, result : CleanResults]
    /\ context = None /\ cleaned = Absent
    /\ RiskIdle /\ RulesIdle /\ PlanIdle /\ DocIdle /\ LocateIdle /\ RunIdle

NextClean == CleanTraitResult

SpecClean == InitClean /\ [][NextClean]_vars

RECURSIVE C24_Chars(_)
\* the number of characters of the words ws
C24_Chars(ws) == IF ws = <<>> THEN 0 ELSE Len(Head(ws)) + C24_Chars(Tail(ws))

\* out is text cut to its first n words when it has more than limit words,
\* text itself otherwise, and None when text is empty
C24_Cut(out, text, limit, n) ==
    LET w == Split(text)
    IN  /\ (out = None) <=> (w = <<>>)
        /\ out # None =>
              /\ Len(Split(out)) <= limit
              /\ Len(w) > limit =>
                    /\ Split(out) = SubSeq(w, 1, n)
                    /\ Len(out) = C24_Chars(SubSeq(w, 1, n)) + n - 1
              /\ Len(w) <= limit => out = text

\* C24: after _clean_trait_result a present trait has at most 5 words: a trait
\* that, header prefix and leading noise words removed, has 6 or more words is
\* cut to exactly its first 4 words, one with 5 or fewer is left whole; a
\* present result has at most 3 words, a longer one being cut to its first 3;
\* and a trait or result that becomes empty is returned as None.
C24_WordLimits ==
    pc = "cleaned" =>
        /\ IF ~Truthy(parsed.trait) THEN cleaned.trait = parsed.trait
           ELSE C24_Cut(cleaned.trait,
                        StripNoise(DropPrefix(Strip(parsed.trait), HeaderPrefix), NoiseWords),
                        5, 4)
        /\ IF ~Truthy(parsed.result) THEN cleaned.result = parsed.result
           ELSE C24_Cut(cleaned.result, Strip(parsed.result), 3, 3)

\* a trait with the header prefix and six more words, and a result of five
\* words, have been cut
C24_Witness ==
    /\ pc = "cleaned"
    /\ StartsWith(parsed.trait, HeaderPrefix)
    /\ Len(Split(parsed.trait)) = 12
    /\ Len(Split(cleaned.trait)) = 4
    /\ Len(Split(parsed.result)) = 5
    /\ Len(Split(cleaned.result)) = 3

-----------------------------------------------------------------------------
(* The result the context parser assigns (SpecContext) *)

\* the marker comes directly after the symbol sym found at position i of ctx
\* and res is the text that follows that marker
C25_OwnMarkerAt(ctx, sym, i, res) ==
    LET j == SkipSpaces(ctx, i + Len(sym))
    IN  /\ OccursAtIgnoreCase(ctx, sym, i)
        /\ j > i + Len(sym) - 1
        /\ j <= Len(ctx) /\ ctx[j] = Marker
        /\ StartsWith(SubSeq(ctx, SkipSpaces(ctx, j + 1), Len(ctx)), res)

\* C25: a result the context parser assigns to gene G, for a context that
\* holds G's symbol as find_gene's contexts do, is the text after the
\* marker that comes directly after G's own symbol in the context, never the
\* result at the marker of another gene elsewhere in the context.
C25_ResultOfOwnMarker ==
    pc = "parsed" /\ WordMatches(context, gene_name) # {} /\ parsed.result # None =>
        \E i \in 1..Len(context) : C25_OwnMarkerAt(context, gene_name, i, parsed.result)

-----------------------------------------------------------------------------
(* Specification SpecSession: one browser session of the Streamlit UI
   (app.py main).  Each action is one run of the script, started by what
   the user did: chose a file, clicked "Generate Complete Plan", clicked
   "Generate Daily Meals", or removed the file.  st.session_state is all
   that one run hands to the next. *)

MaxUploadPages == 1

UploadNames == {"a.pdf", "b.pdf"}
UploadPages == {PageSummary, PageWrongHeader}
UploadDocs == SeqsUpTo(UploadPages, MaxUploadPages)

\* Path(f"temp_{uploaded_file.name}")
TempPath(name) == "temp_" \o name

UploadedFile(name, content) == [name |-> name, content |-> content]

\* st.session_state.key = value
SessionSet(state, key, value) ==
    [k \in DOMAIN state \cup {key} |-> IF k = key THEN value ELSE state[k]]

\* line 63: nothing is extracted when genes are held for a file of this name
ExtractionSkipped(state, file) ==
    "genes" \in DOMAIN state /\ "pdf_name" \in DOMAIN state /\ state.pdf_name = file.name

\* lines 64-73: extract and store genes, pdf_name, pdf_path
session_after_extraction(state, file) ==
    LET extracted == get_priority_genes_with_summary(load_pdf_text(file.content))
    IN  SessionSet(SessionSet(SessionSet(state, "genes", extracted),
                              "pdf_name", file.name),
                   "pdf_path", TempPath(file.name))

\* lines 57-75, the part of every run with a file in the uploader: the file
\* is written to its temp path; unless skipped, it is read back and extracted
\* (load_pdf_text raises on a document without pages, which ends the run)
RunUploadPart(file) ==
    /\ disk' = WriteFile(disk, TempPath(file.name), file.content)
    /\ IF ExtractionSkipped(session, file)
       THEN pc' = "tabs" /\ raised' = NoError /\ UNCHANGED session
       ELSE IF disk'[TempPath(file.name)] = <<>>
            THEN pc' = "stopped" /\ raised' = NoTextExtracted /\ UNCHANGED session
            ELSE /\ pc' = "tabs" /\ raised' = NoError
                 /\ session' = session_after_extraction(session, file)

InitSession ==
    /\ pc = "empty"
    /\ disk \in {<<>>} \cup {RulesPath :> r : r \in {YamlDoc(FullRules), YamlDoc(Rules_priority_null)}}
    /\ session = <<>> /\ uploaded_file = None
    /\ raised = NoError /\ plan_dict = Absent /\ menu = Absent
    /\ report = None /\ args = <<>> /\ previous = <<>>
    /\ meals \in MealsTables
    /\ RiskIdle /\ RulesIdle /\ PlanIdle /\ DocIdle /\ LocateIdle /\ ContextIdle

\* the user chooses a file in the uploader
Upload ==
    \E name \in UploadNames, content \in UploadDocs :
        /\ uploaded_file' = UploadedFile(name, content)
        /\ RunUploadPart(uploaded_file')
        /\ UNCHANGED <<plan_dict, menu, report, args, meals, previous, riskVars,
                       rulesVars, plan, docVars, locateVars, contextVars>>

\* the user removes the file: the run shows the uploader and nothing else
RemoveFile ==
    /\ ~IsNone(uploaded_file)
    /\ uploaded_file' = None
    /\ pc' = "empty" /\ raised' = NoError
    /\ UNCHANGED <<disk, session, plan_dict, menu, report, args, meals, previous,
                   riskVars, rulesVars, plan, docVars, locateVars, contextVars>>

\* lines 115-129: the button "Generate Complete Plan" of a run that drew the
\* tabs (the file in the uploader is the one whose genes are held, so the
\* run skips the extraction)
ClickGeneratePlan ==
    /\ pc = "tabs"
    /\ disk' = WriteFile(disk, TempPath(uploaded_file.name), uploaded_file.content)
    /\ IF RulesPath \notin DOMAIN disk
       THEN raised' = RulesNotFound /\ UNCHANGED session
       ELSE LET engine == safe_load_or_empty(disk[RulesPath])
            IN  IF apply_rules_raises(session.genes, engine)
                THEN raised' = IntOfNone /\ UNCHANGED session
                ELSE LET advice == apply_rules(session.genes, engine)
                         made == generate_plan(advice)
                     IN  /\ raised' = NoError
                         /\ session' = SessionSet(SessionSet(SessionSet(session,
                                "plan", made), "plan_dict", plan_to_dict(made)),
                                "advice_list", advice)
    /\ pc' = "tabs"
    /\ UNCHANGED <<uploaded_file, plan_dict, menu, report, args, meals, previous,
                   riskVars, rulesVars, plan, docVars, locateVars, contextVars>>

\* lines 219-229: the button "Generate Daily Meals", drawn once a plan_dict is
\* held, with meals.yml in place
ClickGenerateMeals ==
    /\ pc = "tabs"
    /\ "plan_dict" \in DOMAIN session
    /\ disk' = WriteFile(disk, TempPath(uploaded_file.name), uploaded_file.content)
    /\ \E genes_found \in Orderings(extract_genes_from_plan(session.plan_dict)) :
           session' = SessionSet(session, "menu", generate_daily_plan(genes_found, meals))
    /\ pc' = "tabs" /\ raised' = NoError
    /\ UNCHANGED <<uploaded_file, plan_dict, menu, report, args, meals, previous,
                   riskVars, rulesVars, plan, docVars, locateVars, contextVars>>

NextSession == Upload \/ RemoveFile \/ ClickGeneratePlan \/ ClickGenerateMeals

SpecSession == InitSession /\ [][NextSession]_vars

\* C27: while the tabs are shown for an uploaded file that has pages, the
\* genes held in the session are the extraction of the content of that file,
\* the most recently uploaded one, whatever its name.
C27_GenesOfLatestUpload ==
    pc = "tabs" /\ uploaded_file.content # <<>> =>
        session.genes = get_priority_genes_with_summary(load_pdf_text(uploaded_file.content))

\* C26: a plan held in the session is the one computed from the genes held in
\* the session: advice_list is apply_rules of those genes, plan is
\* generate_plan of it, and plan_dict is plan_to_dict of plan.
C26_PlanOfCurrentGenes ==
    "plan" \in DOMAIN session /\ pc = "tabs" =>
        LET advice == apply_rules(session.genes, safe_load_or_empty(disk[RulesPath]))
        IN  /\ session.advice_list = advice
            /\ session.plan = generate_plan(advice)
            /\ session.plan_dict = plan_to_dict(generate_plan(advice))
====
